---- MODULE Spec2Model ----
(***************************************************************************)
(* A model of the record reconciliation engine of the OTTER transient     *)
(* catalog: Transient.__add__ and its field mergers (transient.py) and    *)
(* the cone filter of Otter.query (otter.py).                              *)
(*                                                                         *)
(* Python objects live in a heap: a record (Transient.data) maps its      *)
(* top-level keys to addresses, a list object holds the addresses of its  *)
(* entries and a dict object holds its fields.  Two names that hold the   *)
(* same address are aliases of one object, so an in-place change made     *)
(* through one is seen through the other.                                 *)
(*                                                                         *)
(* The sky is modelled as one great circle: a position is an integer      *)
(* number of arcseconds along it and the angular separation of two        *)
(* positions is the absolute difference.  Reference fields are lists of   *)
(* bibcodes (the data model's reference[]), never bare strings.           *)
(***************************************************************************)
EXTENDS Integers, Sequences, FiniteSets, TLC

VARIABLES
    heap,     \* the object heap: heap[a] is the object at address a
    recs,     \* the two operand records: recs.A, recs.B (key -> address)
    pc,       \* "ready" -> "merged" -> "mutated"; "query" -> "queried"
    call,     \* the arguments of the last merge call
    heap0,    \* the heap as it was when the last merge call started
    result,   \* the record a successful merge returned (key -> address)
    outcome,  \* how the last call ended
    touched,  \* the key of result a caller modified in place afterwards
    catalog,  \* the unfiltered query result (a list of stored documents)
    qarg,     \* the cone filter's arguments: centre and radius
    qout,     \* the indices of catalog the cone filter returned, in order
    partial,  \* reconcile: partially_merged, a list of records
    private,  \* reconcile: private_results, a list of records
    newt,     \* reconcile: new_transients
    jj,       \* reconcile: the index of the private record in turn
    ii,       \* reconcile: the index of the primary record tried next
    tries,    \* reconcile: the merges attempted so far, in order
    phot,     \* clean_photometry: self["photometry"], a list of blocks
    phot0,    \* clean_photometry: the blocks before the first call
    falias,   \* clean_photometry: self["filter_alias"]
    parg,     \* clean_photometry: the obs_type argument of the calls
    tables,   \* clean_photometry: what each call so far returned or raised
    store,    \* save: the JSON files of DATADIR, file name -> document
    summary,  \* save: summary.csv, when it exists a set of rows
    batch,    \* save: the argument schema, a list of documents
    sk,       \* save: the index of the document of schema in turn
    slog      \* save: what happened to each document processed so far

reconVars == <<partial, private, newt, jj, ii, tries>>

photVars == <<phot, phot0, falias, parg, tables>>

saveVars == <<store, summary, batch, sk, slog>>

vars == <<heap, recs, pc, call, heap0, result, outcome, touched,
          catalog, qarg, qout, reconVars, photVars, saveVars>>

(***************************************************************************)
(* Bounds of the model.                                                    *)
(***************************************************************************)
MaxConf == 2       \* confidences range over 0..MaxConf halves
ConfDen == 2       \* a confidence c stands for the number c / ConfDen
MaxVal  == 2       \* numeric field values range over 1..MaxVal
MaxLen  == 2       \* entries in the longer section list of a focused specification
MaxCat  == 2       \* documents in a queried catalog
MaxPos  == 6       \* catalog positions range over 0..MaxPos arcseconds
MaxRecs == 2       \* primary records, and private records, of a reconciliation
MaxBlocks == 2     \* photometry blocks of a record

(***************************************************************************)
(* Generic helpers.                                                        *)
(***************************************************************************)
Range(s) == {s[i] : i \in 1..Len(s)}

Abs(n) == IF n < 0 THEN 0 - n ELSE n

\* every enumeration of a finite set: list(set) yields the elements in
\* hash order, which is not determined by the program
RECURSIVE Perms(_)
Perms(S) ==
    IF S = {} THEN {<<>>}
    ELSE UNION {{<<x>> \o p : p \in Perms(S \ {x})} : x \in S}

\* d[key] = v on a dict
SetField(d, key, v) ==
    [f \in DOMAIN d \cup {key} |-> IF f = key THEN v ELSE d[f]]

FirstIdx(s, v) == CHOOSE i \in 1..Len(s) : s[i] = v /\ \A j \in 1..(i-1) : s[j] # v

\* the subsequence of s at the positions that satisfy keep
RECURSIVE SelectIdx(_, _, _)
SelectIdx(s, keep, i) ==
    IF i > Len(s) THEN <<>>
    ELSE (IF i \in keep THEN <<s[i]>> ELSE <<>>) \o SelectIdx(s, keep, i + 1)

(***************************************************************************)
(* Names are sequences of characters.                                      *)
(***************************************************************************)
Digits == {"0", "1", "2", "3", "4", "5", "6", "7", "8", "9"}

N2019abc   == <<"2", "0", "1", "9", "a", "b", "c">>
NAT2019abc == <<"A", "T", "2", "0", "1", "9", "a", "b", "c">>
NAT2       == <<"A", "T", "2">>
N20x       == <<"2", "0", "x">>
Nabc       == <<"a", "b", "c">>
NEmpty     == <<>>

\* the discriminating expressions of _merge_names, as re.findall matches
Exp1(n) == Len(n) >= 1 /\ n[1] \in Digits                          \* "^[0-9]"
Exp2(n) == Len(n) >= 1                                             \* ".$"
Exp3(n) == Len(n) >= 3 /\ \A i \in 1..3 : n[i] \in Digits          \* "^[0-9]{3}"
Exp4(n) == Len(n) >= 2 /\ n[1] = "A" /\ n[2] = "T"                 \* "^AT"

B2N(b) == IF b THEN 1 ELSE 0

Score(n) == B2N(Exp1(n)) + B2N(Exp2(n)) + B2N(Exp3(n)) + B2N(Exp4(n))

DefaultNameSwapped(n1, n2) ==
    IF n1 = n2 THEN n1
    ELSE IF Score(n1) > Score(n2) THEN n2
    ELSE IF Score(n2) > Score(n1) THEN n1
    ELSE n1

DefaultNameTieRight(n1, n2) ==
    IF n1 = n2 THEN n1
    ELSE IF Score(n1) > Score(n2) THEN n1
    ELSE n2

\* the default_name _merge_names chooses
DefaultName(n1, n2) ==
    IF n1 = n2 THEN n1
    ELSE IF Score(n1) > Score(n2) THEN n1
    ELSE IF Score(n2) > Score(n1) THEN n2
    ELSE n1

\* t1map / t2map: alias value -> reference list; a later entry with the same
\* value overwrites an earlier one
AliasMap(al) ==
    [v \in {al[i].value : i \in 1..Len(al)} |->
        al[CHOOSE i \in 1..Len(al) :
              al[i].value = v /\ \A j \in (i+1)..Len(al) : al[j].value # v].reference]

BothRefsSwapped(r1, r2) == r2 \o r1

\* t1map[k] + t2map[k]
BothRefs(r1, r2) == r1 \o r2

AliasLines(m, ks) == [i \in 1..Len(ks) |-> [value |-> ks[i], reference |-> m[ks[i]]]]

\* every value _merge_names can leave in out["name"]: line2 + line1 + bothlines,
\* each group in the order list(set) happens to give
MergeNames(n1, n2) ==
    LET t1map == AliasMap(n1.alias)
        t2map == AliasMap(n2.alias)
        inboth == DOMAIN t1map \cap DOMAIN t2map
        int1 == DOMAIN t1map \ DOMAIN t2map
        int2 == DOMAIN t2map \ DOMAIN t1map
        both == [v \in inboth |-> BothRefs(t1map[v], t2map[v])]
    IN  { [default_name |-> DefaultName(n1.default_name, n2.default_name),
           alias |-> AliasLines(t2map, p2) \o AliasLines(t1map, p1)
                       \o AliasLines(both, pb)] :
            p1 \in Perms(int1), p2 \in Perms(int2), pb \in Perms(inboth) }

(***************************************************************************)
(* The Tabular Merge Primitive: _merge_arbitrary and _remove_nans.         *)
(*                                                                         *)
(* An entry is a dict of fields.  The field "value" holds a tagged value:  *)
(* [t |-> "int", v |-> n] the number n, [t |-> "str", v |-> n] the string  *)
(* that spells n, [t |-> "none"] a JSON null and [t |-> "nan"] a float     *)
(* not-a-number.  Every other field holds a plain value of one fixed type. *)
(***************************************************************************)
VInt(n) == [t |-> "int", v |-> n]
VStr(n) == [t |-> "str", v |-> n]
VNone == [t |-> "none", v |-> 0]
VNan == [t |-> "nan", v |-> 0]

VariantFields == {"value"}

Columns(L) == UNION {DOMAIN L[i] : i \in 1..Len(L)}

\* the dtype pandas infers for column f of pd.DataFrame(L)
ColKind(L, f) ==
    LET vals == {L[i][f] : i \in {j \in 1..Len(L) : f \in DOMAIN L[j]}}
        tags == {x.t : x \in vals}
        gap == \E i \in 1..Len(L) : f \notin DOMAIN L[i]
    IN  IF vals = {} THEN "absent"
        ELSE IF "str" \in tags THEN "object"
        ELSE IF tags \cap {"int", "nan"} = {} THEN "object"
        ELSE IF gap \/ tags \cap {"none", "nan"} # {} THEN "float64"
        ELSE "int64"

\* the dtype of column f after pd.concat([df1, df2])
ConcatKind(L1, L2, f) ==
    LET k1 == ColKind(L1, f)
        k2 == ColKind(L2, f)
        fill == (k1 = "absent" /\ Len(L1) > 0) \/ (k2 = "absent" /\ Len(L2) > 0)
    IN  IF "object" \in {k1, k2} THEN "object"
        ELSE IF "float64" \in {k1, k2} \/ fill THEN "float64"
        ELSE "int64"

RNan == [txt |-> "nan", n |-> 0, dot |-> FALSE]

\* str() of the cell of a "value" column, as astype(str) renders it: side is
\* the dtype of the cell's own frame, comb the dtype after the concat
RenderValue(x, side, comb) ==
    IF comb # "object"
    THEN IF x.t = "int" THEN [txt |-> "num", n |-> x.v, dot |-> comb = "float64"]
         ELSE RNan
    ELSE IF side = "object"
         THEN IF x.t \in {"int", "str"} THEN [txt |-> "num", n |-> x.v, dot |-> FALSE]
              ELSE IF x.t = "none" THEN [txt |-> "None", n |-> 0, dot |-> FALSE]
              ELSE RNan
         ELSE IF x.t = "int" THEN [txt |-> "num", n |-> x.v, dot |-> side = "float64"]
              ELSE RNan

\* the string form of one row of the concatenated frame
RowKey(e, L, L1, L2, cols) ==
    [f \in cols |->
        IF f \notin DOMAIN e THEN [p |-> FALSE, r |-> RNan]
        ELSE IF f \in VariantFields
             THEN [p |-> FALSE, r |-> RenderValue(e[f], ColKind(L, f), ConcatKind(L1, L2, f))]
             ELSE [p |-> TRUE, r |-> e[f]]]

\* whether the cell of field f of entry e, an entry of side L, is a float nan
\* in the records to_dict returns
IsNanCell(e, L, f) ==
    /\ f \in VariantFields
    /\ \/ e[f].t = "nan"
       \/ e[f].t = "none" /\ ColKind(L, f) = "float64"

\* _remove_nans on the record of entry e of side L
RemoveNans(e, L) == [f \in {g \in DOMAIN e : ~IsNanCell(e, L, g)} |-> e[f]]

\* the index drop_duplicates keeps: the first row of each string form
DropDuplicates(keys) ==
    {i \in 1..Len(keys) : \A j \in 1..(i - 1) : keys[j] # keys[i]}

\* merged_with_dups.astype(str): the string form of every row of the
\* concatenated frame
RowKeys(L1, L2) ==
    LET cols == Columns(L1) \cup Columns(L2)
        rows == L1 \o L2
    IN  [i \in 1..Len(rows) |->
            RowKey(rows[i], IF i <= Len(L1) THEN L1 ELSE L2, L1, L2, cols)]

\* out[key] of _merge_arbitrary for the entry lists L1 = t1[key], L2 = t2[key]
MergeArbitrary(L1, L2) ==
    LET rows == L1 \o L2
        cleaned == [i \in 1..Len(rows) |->
                       RemoveNans(rows[i], IF i <= Len(L1) THEN L1 ELSE L2)]
    IN  SelectIdx(cleaned, DropDuplicates(RowKeys(L1, L2)), 1)

\* a field of a photometry block: a scalar, S(x), or a list, L(q)
S(x) == [k |-> "s", s |-> x, l |-> <<>>]
L(q) == [k |-> "l", s |-> "", l |-> q]

IsList(v) == v.k = "l"

(***************************************************************************)
(* The heap.  A list object is [kind |-> "list", items |-> addresses], a  *)
(* dict object is [kind |-> "dict", val |-> fields].  Addresses are the   *)
(* indices of heap; an allocation appends.                                 *)
(***************************************************************************)
ListKeys == {"coordinate", "distance", "date_reference", "classification",
             "reference_alias", "filter_alias", "photometry", "spectra", "host"}
DictKeys == {"name", "schema_version"}
Keys == ListKeys \cup DictKeys

\* the order in which the model walks over a set of keys
KeyOrder == <<"name", "coordinate", "distance", "date_reference",
              "classification", "reference_alias", "filter_alias",
              "schema_version", "photometry", "spectra", "host">>

DictCell(v) == [kind |-> "dict", val |-> v]
ListCell(as) == [kind |-> "list", items |-> as]

\* the structural value of the object at address a
DeepVal(h, a) ==
    IF h[a].kind = "list"
    THEN [i \in 1..Len(h[a].items) |-> h[h[a].items[i]].val]
    ELSE h[a].val

\* the structural value of a record
RecVal(h, t) == [k \in DOMAIN t |-> DeepVal(h, t[k])]

\* a new list object holding new dict objects with the values vs;
\* the list is the last object allocated
AllocList(h, vs) ==
    h \o [i \in 1..Len(vs) |-> DictCell(vs[i])]
      \o <<ListCell([i \in 1..Len(vs) |-> Len(h) + i])>>

AllocDict(h, v) == Append(h, DictCell(v))

\* a new object with structural value v for the section key
AllocVal(h, key, v) == IF key \in ListKeys THEN AllocList(h, v) ELSE AllocDict(h, v)

\* copy.deepcopy of the object at a (no list of the model holds one object twice)
DeepCopy(h, a) ==
    IF h[a].kind = "list" THEN AllocList(h, DeepVal(h, a)) ELSE AllocDict(h, h[a].val)

SetVal(h, a, v) == [h EXCEPT ![a] = DictCell(v)]

\* the list at a with its item number i replaced by the object at x
ReplaceItem(h, a, i, x) ==
    [h EXCEPT ![a] =
        ListCell([n \in 1..Len(h[a].items) |-> IF n = i THEN x ELSE h[a].items[n]])]

ListAppend(h, a, x) == [h EXCEPT ![a] = ListCell(Append(h[a].items, x))]

\* out[key] = the object at a
Bind(out, key, a) == [k \in DOMAIN out \cup {key} |-> IF k = key THEN a ELSE out[k]]

\* the merge in progress: the heap and the dictionary `out`
St(h, out) == [h |-> h, out |-> out]

(***************************************************************************)
(* Field mergers.  Each takes the merge in progress and the operands t1,  *)
(* t2 (key -> address) and returns the merge in progress after it.         *)
(***************************************************************************)

\* __add__, key == "reference_alias": out[key] IS self[key]; entries of other
\* whose name self lacked when the loop started are appended to that list
\* the loop without the test on bibcodes
AppendAllRefs(h, a, items, bibcodes, j) ==
    IF j > Len(items) THEN h
    ELSE LET step[n \in j..(Len(items) + 1)] ==
                 IF n = j THEN h ELSE ListAppend(step[n - 1], a, items[n - 1])
         IN  step[Len(items) + 1]

RECURSIVE AppendNewRefs(_, _, _, _, _)
AppendNewRefs(h, a, items, bibcodes, j) ==
    IF j > Len(items) THEN h
    ELSE AppendNewRefs(
             IF h[items[j]].val.name \notin bibcodes
             THEN ListAppend(h, a, items[j]) ELSE h,
             a, items, bibcodes, j + 1)

MergeReferenceAlias(st, t1, t2) ==
    LET key == "reference_alias"
        a == t1[key]
        bibcodes == {e.name : e \in Range(DeepVal(st.h, a))}
    IN  St(IF DeepVal(st.h, a) # DeepVal(st.h, t2[key])
           THEN AppendNewRefs(st.h, a, st.h[t2[key]].items, bibcodes, 1)
           ELSE st.h,
           Bind(st.out, key, a))

\* out[key] = deepcopy(self[key])
CopyFromT1(st, t1, key) ==
    LET h1 == DeepCopy(st.h, t1[key]) IN St(h1, Bind(st.out, key, Len(h1)))

\* _merge_coords, _merge_date, _merge_distance
MergeTabular(st, t1, t2, key) ==
    LET h1 == AllocList(st.h, MergeArbitrary(DeepVal(st.h, t1[key]),
                                              DeepVal(st.h, t2[key])))
    IN  St(h1, Bind(st.out, key, Len(h1)))

\* _merge_names with nm the value it leaves, one of MergeNames(...)
MergeNamesInto(st, nm) ==
    LET h1 == AllocDict(st.h, nm) IN St(h1, Bind(st.out, "name", Len(h1)))

RECURSIVE AppendAllFilters(_, _, _, _, _)
AppendAllFilters(h, a, items, keys1, j) ==
    IF j > Len(items) THEN h
    ELSE AppendAllFilters(ListAppend(h, a, items[j]), a, items, keys1, j + 1)

\* _merge_filter_alias: deepcopy of t1's list, then t2's own entry objects
RECURSIVE AppendNewFilters(_, _, _, _, _)
AppendNewFilters(h, a, items, keys1, j) ==
    IF j > Len(items) THEN h
    ELSE AppendNewFilters(
             IF h[items[j]].val.filter_key \notin keys1
             THEN ListAppend(h, a, items[j]) ELSE h,
             a, items, keys1, j + 1)

MergeFilterAlias(st, t1, t2) ==
    LET key == "filter_alias"
        h1 == DeepCopy(st.h, t1[key])
        a == Len(h1)
        keys1 == {e.filter_key : e \in Range(DeepVal(st.h, t1[key]))}
    IN  St(AppendNewFilters(h1, a, st.h[t2[key]].items, keys1, 1),
           Bind(st.out, key, a))

\* _merge_schema_version
MergeSchemaVersion(st, t1, t2) ==
    LET key == "schema_version"
        src == IF st.h[t1[key]].val.value > st.h[t2[key]].val.value
               THEN t1[key] ELSE t2[key]
        h1 == DeepCopy(st.h, src)
    IN  St(h1, Bind(st.out, key, Len(h1)))

(***************************************************************************)
(* _merge_photometry.  A frame is the sequence of its rows, a row a        *)
(* function from column names to cells S(x); S("nan") is the null that the *)
(* outer join fills in.                                                    *)
(***************************************************************************)
NullCell == S("nan")

\* the columns of the blocks, and the cells in the order that sorting gives
\* them (a null key sorts last)
PhotCols == {"reference", "raw", "filter_key", "telescope"}
CellOrder == <<"1", "2", "Swift", "ZTF", "g", "r", "r1", "r2", "nan">>
CellRank(c) == FirstIdx(CellOrder, c.s)

\* pd.DataFrame(item): scalar fields are repeated along the list fields
PhotFrame(item) ==
    LET n == CHOOSE m \in {Len(item[f].l) : f \in {g \in DOMAIN item : IsList(item[g])}} :
                 TRUE
    IN  [i \in 1..n |->
            [f \in DOMAIN item |-> IF IsList(item[f]) THEN item[f].l[i] ELSE item[f]]]

\* the rows of df2 that have the cells of r in all the columns of mergeon
Matches(r, df2, mergeon) ==
    {j \in 1..Len(df2) : \A c \in mergeon : df2[j][c] = r[c]}

\* a row over cols with the cells of r1, else of r2, else null
JoinRow(r1, r2, cols) ==
    [c \in cols |-> IF c \in DOMAIN r1 THEN r1[c]
                    ELSE IF c \in DOMAIN r2 THEN r2[c] ELSE NullCell]

\* the rows of the left frame from row i on, each joined with its matches
RECURSIVE LeftRows(_, _, _, _, _)
LeftRows(df1, df2, mergeon, cols, i) ==
    IF i > Len(df1) THEN <<>>
    ELSE LET hits == SelectIdx(df2, Matches(df1[i], df2, mergeon), 1)
         IN  (IF hits = <<>> THEN <<JoinRow(df1[i], <<>>, cols)>>
              ELSE [j \in 1..Len(hits) |-> JoinRow(df1[i], hits[j], cols)])
             \o LeftRows(df1, df2, mergeon, cols, i + 1)

\* the rows of the right frame that match no row of the left frame
RightRows(df1, df2, mergeon, cols) ==
    LET lone == {j \in 1..Len(df2) : Matches(df2[j], df1, mergeon) = {}}
        rows == SelectIdx(df2, lone, 1)
    IN  [j \in 1..Len(rows) |-> JoinRow(rows[j], <<>>, cols)]

\* r1 sorts before r2 on the key columns on[k], on[k + 1], ...
RECURSIVE RowLess(_, _, _, _)
RowLess(r1, r2, on, k) ==
    IF k > Len(on) THEN FALSE
    ELSE IF CellRank(r1[on[k]]) # CellRank(r2[on[k]])
         THEN CellRank(r1[on[k]]) < CellRank(r2[on[k]])
    ELSE RowLess(r1, r2, on, k + 1)

\* a stable sort of rows on the key columns
RECURSIVE SortRows(_, _)
SortRows(rows, on) ==
    IF rows = <<>> THEN <<>>
    ELSE LET first == CHOOSE i \in 1..Len(rows) :
                          /\ \A j \in 1..Len(rows) : ~RowLess(rows[j], rows[i], on, 1)
                          /\ \A j \in 1..(i - 1) : RowLess(rows[j], rows[i], on, 1)
                                                    \/ RowLess(rows[i], rows[j], on, 1)
         IN  <<rows[first]>> \o SortRows(SelectIdx(rows, (1..Len(rows)) \ {first}, 1), on)

\* df1.merge(df2, on=mergeon, how="outer"), po giving the order list(set)
\* left the columns of mergeon in
OuterMerge(df1, df2, cols1, cols2, po) ==
    LET mergeon == cols1 \cap cols2
        on == SelectIdx(po, {k \in 1..Len(po) : po[k] \in mergeon}, 1)
        cols == cols1 \cup cols2
    IN  SortRows(LeftRows(df1, df2, mergeon, cols, 1)
                 \o RightRows(df1, df2, mergeon, cols), on)

\* df.reset_index().to_dict(orient="list") without "index", and
\* newdict["reference"] = newdict["reference"][0]
NewDict(rows, cols) ==
    [c \in cols |-> IF c = "reference" THEN rows[1][c]
                    ELSE L([i \in 1..Len(rows) |-> rows[i][c]])]

\* the block that replaces out[key][i1]
MergedBlock(b1, val, po) ==
    NewDict(OuterMerge(PhotFrame(b1), PhotFrame(val), DOMAIN b1, DOMAIN val, po),
            DOMAIN b1 \cup DOMAIN val)

\* pd.DataFrame(item) raises ValueError unless the list fields have one
\* length (and there is one: all scalars need an index)
FrameOk(item) ==
    Cardinality({Len(item[f].l) : f \in {g \in DOMAIN item : IsList(item[g])}}) = 1

\* the bibcode of a reference, a string or a list of one string
RefName(ref) == IF IsList(ref) THEN ref.l[1].s ELSE ref.s

\* np.where(val["reference"] == refs)[0][0]
RefsWhere(refs, r) == FirstIdx(refs, r)

\* the loop over t2[key]: refs is the array made before the loop; the heap
\* after the loop, or the error that ends it
RECURSIVE PhotLoop(_, _, _, _, _, _)
PhotLoop(h, a, items, refs, po, j) ==
    IF j > Len(items) THEN [h |-> h, err |-> "none"]
    ELSE LET val == h[items[j]].val
             r == RefName(val.reference)
         IN  IF r \notin Range(refs)
             THEN PhotLoop(ListAppend(h, a, items[j]), a, items, refs, po, j + 1)
             ELSE LET i1 == RefsWhere(refs, r)
                      b1 == h[h[a].items[i1]].val
                      h1 == AllocDict(h, MergedBlock(b1, val, po))
                  IN  IF ~FrameOk(b1) \/ ~FrameOk(val)
                      THEN [h |-> h, err |-> "ValueError"]
                      ELSE PhotLoop(
                               ReplaceItem(h1, a, i1, Len(h1)),
                               a, items, refs, po, j + 1)

\* _merge_photometry as far as it gets
PhotRun(h, t1, t2, po) ==
    LET key == "photometry"
        h1 == DeepCopy(h, t1[key])
        a == Len(h1)
        refs == [i \in 1..Len(h1[a].items) |-> RefName(h1[h1[a].items[i]].val.reference)]
    IN  [run |-> PhotLoop(h1, a, h[t2[key]].items, refs, po, 1), a |-> a]

MergePhotometry(st, t1, t2, po) ==
    LET r == PhotRun(st.h, t1, t2, po)
    IN  St(r.run.h, Bind(st.out, "photometry", r.a))

\* _merge_spectra: pass
MergeSpectra(st, t1, t2) == st

(***************************************************************************)
(* _merge_class.                                                           *)
(***************************************************************************)
\* bibcodes in the order np.unique sorts them
Bibcodes == <<"r1", "r2", "r3">>

\* list(np.unique(refs))
SortedUnique(refs) ==
    SelectIdx(Bibcodes, {i \in 1..Len(Bibcodes) : Bibcodes[i] \in Range(refs)}, 1)

\* int(c) for the confidence c / ConfDen
PyInt(c) == c \div ConfDen

\* the loop over t2[key]: an entry whose object_class t1 had is folded into
\* out's entry of that class, any other entry object is appended as it is
RECURSIVE ClassLoop(_, _, _, _, _)
ClassLoop(h, oa, items, classes, j) ==
    IF j > Len(items) THEN h
    ELSE LET item == h[items[j]].val
         IN  ClassLoop(
                 IF item.object_class \in Range(classes)
                 THEN LET ea == h[oa].items[FirstIdx(classes, item.object_class)]
                          cur == h[ea].val
                          conf == IF PyInt(item.confidence) > PyInt(cur.confidence)
                                  THEN item.confidence ELSE cur.confidence
                      IN  SetVal(h, ea,
                              [cur EXCEPT !.confidence = conf,
                                          !.reference =
                                              SortedUnique(cur.reference \o item.reference)])
                 ELSE ListAppend(h, oa, items[j]),
                 oa, items, classes, j + 1)

\* max(out[key], key=lambda d: d["confidence"]): the first entry of maximum
\* confidence
MaxConfIdx(vs) ==
    CHOOSE m \in 1..Len(vs) :
        /\ \A k \in 1..Len(vs) : vs[k].confidence <= vs[m].confidence
        /\ \A k \in 1..(m - 1) : vs[k].confidence < vs[m].confidence

\* the loop that sets the default flags: item == maxconf compares the dicts
\* as they are when the loop reaches item
RECURSIVE DefaultLoop(_, _, _, _)
DefaultLoop(h, items, maxaddr, k) ==
    IF k > Len(items) THEN h
    ELSE DefaultLoop(
             SetVal(h, items[k],
                    SetField(h[items[k]].val, "default",
                             h[items[k]].val = h[maxaddr].val)),
             items, maxaddr, k + 1)

MergeClass(st, t1, t2) ==
    LET key == "classification"
        h1 == DeepCopy(st.h, t1[key])
        oa == Len(h1)
        vs1 == DeepVal(st.h, t1[key])
        classes == [i \in 1..Len(vs1) |-> vs1[i].object_class]
        h2 == ClassLoop(h1, oa, st.h[t2[key]].items, classes, 1)
        items == h2[oa].items
        maxaddr == items[MaxConfIdx(DeepVal(h2, oa))]
    IN  St(DefaultLoop(h2, items, maxaddr, 1), Bind(st.out, key, oa))

(***************************************************************************)
(* get_skycoord and the strict check of __add__.                           *)
(***************************************************************************)
MergeTolArcsec == 10

\* a galactic longitude as a position of the common frame (transform_to)
GalToIcrs(l) == 0 - l

\* _get_default: of the rows at the positions keep (the rows that pass the
\* filter), those flagged default when the frame has that column and some
\* row is flagged, else all of them
GetDefault(entries, keep) ==
    LET rows == SelectIdx(entries, keep, 1)
        flagged == SelectIdx(rows,
                       {i \in 1..Len(rows) :
                           "default" \in DOMAIN rows[i] /\ rows[i].default}, 1)
    IN  IF "default" \in Columns(entries) /\ flagged # <<>> THEN flagged ELSE rows

IsEquitorial(e) == "coordinate_type" \in DOMAIN e /\ e.coordinate_type = "equitorial"

Pos(p) == [err |-> "none", nan |-> FALSE, p |-> p]
NanPos == [err |-> "none", nan |-> TRUE, p |-> 0]
PosErr(e) == [err |-> e, nan |-> FALSE, p |-> 0]

\* get_skycoord: the position of the record t, or the exception it raises
GetSkycoord(h, t) ==
    IF "coordinate" \notin DOMAIN t THEN PosErr("KeyError")
    ELSE LET entries == DeepVal(h, t["coordinate"])
             rows == GetDefault(entries,
                         {i \in 1..Len(entries) : IsEquitorial(entries[i])})
             cols == Columns(entries)
         IN  IF "coordinate_type" \notin cols THEN PosErr("KeyError")
             ELSE IF rows = <<>> THEN PosErr("TypeError")
             ELSE IF {"ra", "dec"} \subseteq cols
                  THEN IF {"ra", "dec"} \subseteq DOMAIN rows[1]
                       THEN Pos(rows[1].ra) ELSE NanPos
             ELSE IF {"l", "b"} \subseteq cols
                  THEN IF {"l", "b"} \subseteq DOMAIN rows[1]
                       THEN Pos(GalToIcrs(rows[1].l)) ELSE NanPos
             ELSE PosErr("TypeError")

Separation(p, q) == Abs(p - q)

TooFarInclusive(c1, c2) ==
    ~c1.nan /\ ~c2.nan /\ Separation(c1.p, c2.p) >= MergeTolArcsec

\* separation > 10 * u.arcsec (a comparison with not-a-number is false)
TooFar(c1, c2) ==
    ~c1.nan /\ ~c2.nan /\ Separation(c1.p, c2.p) > MergeTolArcsec

(***************************************************************************)
(* Transient.__add__.                                                      *)
(***************************************************************************)
\* the keys __add__ has a merger for
Registered == {"name", "coordinate", "date_reference", "distance",
               "filter_alias", "schema_version", "photometry", "spectra",
               "classification"}

SectionsNeverEqual(h, t1, t2, key) == FALSE

\* self[key] == other[key]
SectionsEqual(h, t1, t2, key) == DeepVal(h, t1[key]) = DeepVal(h, t2[key])

MergeKeys(t1, t2) == DOMAIN t1 \cap DOMAIN t2

\* the shared keys that reach the final else of the dispatch
Unexpected(h, t1, t2) ==
    {k \in MergeKeys(t1, t2) :
        /\ k \notin Registered \cup {"reference_alias"}
        /\ ~SectionsEqual(h, t1, t2, k)}

UnexpectedKeepsOther(st, t1, t2, key) == CopyFromT1(st, t2, key)

\* the final else of the dispatch in a lenient merge: keep the old information
UnexpectedLenient(st, t1, t2, key) == CopyFromT1(st, t1, key)

\* one iteration of the loop over merge_keys (never an unexpected key of a
\* strict merge: that iteration raises); nm is what _merge_names leaves
MergeKey(st, t1, t2, key, nm, po) ==
    IF key = "reference_alias" THEN MergeReferenceAlias(st, t1, t2)
    ELSE IF SectionsEqual(st.h, t1, t2, key) THEN CopyFromT1(st, t1, key)
    ELSE IF key = "name" THEN MergeNamesInto(st, nm)
    ELSE IF key \in {"coordinate", "date_reference", "distance"}
         THEN MergeTabular(st, t1, t2, key)
    ELSE IF key = "filter_alias" THEN MergeFilterAlias(st, t1, t2)
    ELSE IF key = "schema_version" THEN MergeSchemaVersion(st, t1, t2)
    ELSE IF key = "photometry" THEN MergePhotometry(st, t1, t2, po)
    ELSE IF key = "spectra" THEN MergeSpectra(st, t1, t2)
    ELSE IF key = "classification" THEN MergeClass(st, t1, t2)
    ELSE UnexpectedLenient(st, t1, t2, key)

\* the loop over the keys of todo, in KeyOrder
RECURSIVE MergeLoop(_, _, _, _, _, _, _)
MergeLoop(st, t1, t2, todo, nm, po, i) ==
    IF i > Len(KeyOrder) THEN st
    ELSE MergeLoop(
             IF KeyOrder[i] \in todo THEN MergeKey(st, t1, t2, KeyOrder[i], nm, po) ELSE st,
             t1, t2, todo, nm, po, i + 1)

\* what _merge_names can leave, when the loop reaches it at all
NameChoices(h, t1, t2) ==
    IF "name" \in MergeKeys(t1, t2) /\ ~SectionsEqual(h, t1, t2, "name")
    THEN MergeNames(h[t1["name"]].val, h[t2["name"]].val)
    ELSE {[default_name |-> <<>>, alias |-> <<>>]}

\* the orders list(set(df1.keys()) & set(df2.keys())) can give, when
\* _merge_photometry runs at all
PhotOrders(h, t1, t2) ==
    IF "photometry" \in MergeKeys(t1, t2) /\ ~SectionsEqual(h, t1, t2, "photometry")
    THEN Perms(PhotCols)
    ELSE {<<>>}

\* out | dict(self[only_in_t1]) | dict(other[only_in_t2]): the values of the
\* one-sided keys are the operands' own objects
WithOnlyIn(out, t1, t2) ==
    LET only_in_t1 == DOMAIN t1 \ DOMAIN t2
        only_in_t2 == DOMAIN t2 \ DOMAIN t1
    IN  [k \in DOMAIN out \cup only_in_t1 \cup only_in_t2 |->
            IF k \in only_in_t2 THEN t2[k]
            ELSE IF k \in only_in_t1 THEN t1[k] ELSE out[k]]

NoRec == [k \in {} |-> 0]

Ok == [type |-> "ok", msg |-> ""]
Raised(type, msg) == [type |-> type, msg |-> msg]

\* _merge_photometry is reached and raises
PhotRaises(h, t1, t2) ==
    /\ "photometry" \in DOMAIN t1 \cap DOMAIN t2
    /\ DeepVal(h, t1["photometry"]) # DeepVal(h, t2["photometry"])
    /\ PhotRun(h, t1, t2, <<>>).run.err # "none"

\* t1 + t2 (strict) or t1.__add__(t2, strict_merge=False): the heap, the
\* returned record and the outcome; done is the set of shared keys the loop
\* walked before it raised (with "photometry" in it when that is the key that
\* raised), nm what _merge_names leaves, po the order of the photometry
\* merge columns
Add(h, t1, t2, strict, done, nm, po) ==
    LET c1 == GetSkycoord(h, t1)
        c2 == GetSkycoord(h, t2)
        all == MergeLoop(St(h, NoRec), t1, t2, MergeKeys(t1, t2), nm, po, 1)
    IN  IF strict /\ c1.err # "none" THEN [h |-> h, out |-> NoRec, res |-> Raised(c1.err, "")]
        ELSE IF strict /\ c2.err # "none"
             THEN [h |-> h, out |-> NoRec, res |-> Raised(c2.err, "")]
        ELSE IF strict /\ TooFar(c1, c2)
             THEN [h |-> h, out |-> NoRec,
                   res |-> Raised("TransientMergeError", "not within 10 arcseconds")]
        ELSE IF PhotRaises(h, t1, t2) /\ "photometry" \in done
             THEN [h |-> MergeLoop(St(h, NoRec), t1, t2, done \ {"photometry"}, nm, po, 1).h,
                   out |-> NoRec,
                   res |-> Raised("ValueError", "All arrays must be of the same length")]
        ELSE IF strict /\ Unexpected(h, t1, t2) # {}
             THEN [h |-> MergeLoop(St(h, NoRec), t1, t2, done, nm, po, 1).h,
                   out |-> NoRec,
                   res |-> Raised("TransientMergeError", "was not expected")]
        ELSE [h |-> all.h, out |-> WithOnlyIn(all.out, t1, t2), res |-> Ok]

\* the sets of keys the loop can have walked when it raises
DoneChoices(h, t1, t2, strict) ==
    LET unx == IF strict THEN Unexpected(h, t1, t2) ELSE {}
    IN  IF unx = {} /\ ~PhotRaises(h, t1, t2) THEN {MergeKeys(t1, t2)}
        ELSE {d \in SUBSET (MergeKeys(t1, t2) \ unx) :
                 /\ unx = {} => "photometry" \in d
                 /\ "photometry" \in d => PhotRaises(h, t1, t2) \/ unx # {}}

(***************************************************************************)
(* Actions of the merge machine.                                           *)
(***************************************************************************)
\* the calls the model makes: A + A, A + B and B + A
Calls == {<<"A", "A">>, <<"A", "B">>, <<"B", "A">>}

NoCall == [x |-> "A", y |-> "A", strict |-> FALSE]

\* recs[x].__add__(recs[y], strict_merge=strict)
Merge(x, y, strict) ==
    /\ pc = "ready"
    /\ \E nm \in NameChoices(heap, recs[x], recs[y]),
          done \in DoneChoices(heap, recs[x], recs[y], strict),
          po \in PhotOrders(heap, recs[x], recs[y]) :
          LET r == Add(heap, recs[x], recs[y], strict, done, nm, po)
          IN  /\ heap' = r.h
              /\ result' = r.out
              /\ outcome' = r.res
    /\ heap0' = heap
    /\ call' = [x |-> x, y |-> y, strict |-> strict]
    /\ pc' = "merged"
    /\ UNCHANGED <<recs, touched, catalog, qarg, qout, reconVars, photVars, saveVars>>

\* the caller changes one section of the returned record in place:
\* merged[key].clear() on a list, merged[key]["touched"] = True on a dict
MutateResult(key) ==
    /\ pc = "merged"
    /\ outcome = Ok
    /\ key \in DOMAIN result
    /\ heap' = [heap EXCEPT ![result[key]] =
                   IF @.kind = "list" THEN ListCell(<<>>)
                   ELSE DictCell(SetField(@.val, "touched", TRUE))]
    /\ touched' = key
    /\ pc' = "mutated"
    /\ UNCHANGED <<recs, call, heap0, result, outcome, catalog, qarg, qout, reconVars, photVars, saveVars>>

MergeNext ==
    \/ \E c \in Calls, strict \in BOOLEAN : Merge(c[1], c[2], strict)
    \/ \E key \in Keys : MutateResult(key)

(***************************************************************************)
(* Initial states: two records built on an empty heap.                     *)
(***************************************************************************)
\* the objects of a record with structural value dv (key -> value), allocated
\* after h; .t is the record (key -> address)
RECURSIVE BuildRec(_, _, _, _)
BuildRec(h, t, dv, i) ==
    IF i > Len(KeyOrder) THEN [h |-> h, t |-> t]
    ELSE LET k == KeyOrder[i]
         IN  IF k \notin DOMAIN dv THEN BuildRec(h, t, dv, i + 1)
             ELSE LET h1 == AllocVal(h, k, dv[k])
                  IN  BuildRec(h1, Bind(t, k, Len(h1)), dv, i + 1)

\* no reconciliation in progress
ReconIdle ==
    /\ partial = <<>>
    /\ private = <<>>
    /\ newt = <<>>
    /\ jj = 1
    /\ ii = 1
    /\ tries = <<>>

\* no photometry normalization in progress
PhotIdle ==
    /\ phot = <<>>
    /\ phot0 = <<>>
    /\ falias = <<>>
    /\ parg = "None"
    /\ tables = <<>>

NoFiles == [f \in {} |-> NoRec]

\* no save in progress
SaveIdle ==
    /\ store = NoFiles
    /\ summary = [exists |-> FALSE, rows |-> {}]
    /\ batch = <<>>
    /\ sk = 1
    /\ slog = <<>>

\* the state before any call, with operands of structural values da and db
Start(da, db) ==
    LET ra == BuildRec(<<>>, NoRec, da, 1)
        rb == BuildRec(ra.h, NoRec, db, 1)
    IN  /\ heap = rb.h
        /\ recs = [A |-> ra.t, B |-> rb.t]
        /\ pc = "ready"
        /\ call = NoCall
        /\ heap0 = rb.h
        /\ result = NoRec
        /\ outcome = Ok
        /\ touched = "none"
        /\ catalog = <<>>
        /\ qarg = [c |-> 0, r |-> 0]
        /\ qout = <<>>
        /\ ReconIdle
        /\ PhotIdle
        /\ SaveIdle

Equatorial(p, ref) ==
    [ra |-> p, dec |-> 0, ra_units |-> "arcsec", dec_units |-> "arcsec",
     reference |-> <<ref>>, coordinate_type |-> "equitorial"]

Galactic(l, ref) ==
    [l |-> l, b |-> 0, l_units |-> "arcsec", b_units |-> "arcsec",
     reference |-> <<ref>>, coordinate_type |-> "galactic"]

NameOf(n, ref) == [default_name |-> n, alias |-> <<[value |-> n, reference |-> <<ref>>]>>]

ClassEntry(c, conf, ref, d) ==
    [object_class |-> c, confidence |-> conf, reference |-> <<ref>>, default |-> d]

RefAlias(b) == [name |-> b, human_readable_name |-> "hrn"]

FilterAlias(k, w) == [filter_key |-> k, filter_name |-> k, wave_eff |-> w,
                      wave_units |-> "nm"]

Distance(v, ref) ==
    [value |-> v, reference |-> <<ref>>, computed |-> FALSE,
     distance_type |-> "redshift"]

\* a photometry block with the reference ref, the filter fk and the raw
\* values raws
PhotBlock(ref, fk, raws) ==
    [reference |-> S(ref), filter_key |-> fk,
     raw |-> L([i \in 1..Len(raws) |-> S(raws[i])])]

\* the values a section takes in the general specification:
\* option 1 and option 2 of every key
Opt(key, i) ==
    CASE key = "name" ->
            IF i = 1 THEN NameOf(N2019abc, "r1") ELSE NameOf(NAT2019abc, "r2")
      [] key = "coordinate" ->
            IF i = 1 THEN <<Equatorial(0, "r1")>>
            ELSE IF i = 2 THEN <<Equatorial(MergeTolArcsec, "r2")>>
            ELSE <<Equatorial(MergeTolArcsec + 1, "r2")>>
      [] key = "distance" ->
            IF i = 1 THEN <<Distance(VInt(1), "r1")>> ELSE <<Distance(VInt(2), "r2")>>
      [] key = "date_reference" ->
            IF i = 1 THEN <<[value |-> VInt(1), date_format |-> "mjd",
                             reference |-> <<"r1">>, computed |-> FALSE,
                             date_type |-> "discovery"]>>
            ELSE <<[value |-> VInt(2), date_format |-> "mjd",
                    reference |-> <<"r2">>, computed |-> FALSE,
                    date_type |-> "discovery"]>>
      [] key = "classification" ->
            IF i = 1 THEN <<ClassEntry("TDE", 2, "r1", TRUE)>>
            ELSE <<ClassEntry("SN", 1, "r2", TRUE)>>
      [] key = "reference_alias" ->
            IF i = 1 THEN <<RefAlias("r1")>> ELSE <<RefAlias("r1"), RefAlias("r2")>>
      [] key = "filter_alias" ->
            IF i = 1 THEN <<FilterAlias("g", 1)>> ELSE <<FilterAlias("r", 2)>>
      [] key = "schema_version" ->
            IF i = 1 THEN [value |-> 1] ELSE [value |-> 2]
      [] key = "photometry" ->
            IF i = 1 THEN <<PhotBlock("r1", S("g"), <<"1">>)>>
            ELSE <<PhotBlock("r2", S("g"), <<"2">>)>>
      [] key = "spectra" ->
            IF i = 1 THEN <<[reference |-> <<"r1">>, flux |-> <<1>>]>>
            ELSE <<[reference |-> <<"r2">>, flux |-> <<2>>]>>
      [] key = "host" ->
            IF i = 1 THEN <<[host_name |-> "h1", reference |-> <<"r1">>]>>
            ELSE <<[host_name |-> "h2", reference |-> <<"r2">>]>>

NumOpts(key) == IF key = "coordinate" THEN 3 ELSE 2

\* a record that has the keys of Ks with the options pick[k], and the base
\* name and coordinate when those keys are not in focus
RecOf(F, Ks, pick) ==
    [k \in Ks \cup ({"name", "coordinate"} \ F) |->
        IF k \in Ks THEN Opt(k, pick[k]) ELSE Opt(k, 1)]

\* the records that vary on the keys of the focus F; every record has a
\* coordinate section (the data model requires at least one entry)
RecsOver(F) ==
    UNION {{RecOf(F, Ks, pick) :
              pick \in {q \in [Ks -> 1..3] : \A k \in Ks : q[k] <= NumOpts(k)}} :
           Ks \in {T \in SUBSET F : F \cap {"coordinate"} \subseteq T}}

\* the pairs of keys on which the two operands vary
Focus == {F \in SUBSET Keys : Cardinality(F) = 2}

Init ==
    \E F \in Focus : \E da \in RecsOver(F), db \in RecsOver(F) : Start(da, db)

Spec == Init /\ [][MergeNext]_vars

(***************************************************************************)
(* Properties of the merge machine.                                        *)
(***************************************************************************)
T1 == recs[call.x]
T2 == recs[call.y]

Merged == pc = "merged"

Rejected(msg) == Raised("TransientMergeError", msg)

\* the keys that only one operand of the last call has
OneSided == (DOMAIN T1 \ DOMAIN T2) \cup (DOMAIN T2 \ DOMAIN T1)

Owner(k) == IF k \in DOMAIN T1 THEN T1 ELSE T2

\* C1: merge never modifies its operands: after the call, returned or raised,
\* A and B have the structural values they had before it.
C1_OperandsUnchanged ==
    Merged => /\ RecVal(heap, recs.A) = RecVal(heap0, recs.A)
              /\ RecVal(heap, recs.B) = RecVal(heap0, recs.B)

\* C2: a strict merge of records more than 10 arcseconds apart raises
\* TransientMergeError and returns no record, whatever the other sections
\* hold; at 10 arcseconds or less it is never rejected for distance.
C2_StrictDistance ==
    LET c1 == GetSkycoord(heap0, T1)
        c2 == GetSkycoord(heap0, T2)
        sep == Separation(c1.p, c2.p)
    IN  (Merged /\ call.strict /\ c1 = Pos(c1.p) /\ c2 = Pos(c2.p)) =>
            /\ sep > MergeTolArcsec =>
                  outcome = Rejected("not within 10 arcseconds") /\ result = NoRec
            /\ sep <= MergeTolArcsec =>
                  outcome # Rejected("not within 10 arcseconds")

\* a strict merge of records 11 arcseconds apart was rejected, and one of
\* records exactly 10 arcseconds apart returned a record
C2_Witness ==
    /\ Merged /\ call.strict
    /\ Separation(GetSkycoord(heap0, T1).p, GetSkycoord(heap0, T2).p)
          = MergeTolArcsec + 1
    /\ outcome = Rejected("not within 10 arcseconds")
    /\ DOMAIN T1 \cap DOMAIN T2 \cap {"classification", "host", "spectra"} # {}

\* C3: with a shared key that has no merger and whose values differ, a strict
\* merge raises TransientMergeError and a lenient merge returns a record that
\* holds the left operand's value for that key.
C3_UnexpectedKey ==
    (Merged /\ Unexpected(heap0, T1, T2) # {}) =>
        IF call.strict
        THEN outcome.type = "TransientMergeError" /\ result = NoRec
        ELSE /\ outcome = Ok
             /\ \A k \in Unexpected(heap0, T1, T2) :
                   /\ k \in DOMAIN result
                   /\ DeepVal(heap, result[k]) = DeepVal(heap0, T1[k])

\* a lenient merge of records whose host sections differ returned a record
C3_Witness ==
    /\ Merged /\ ~call.strict /\ outcome = Ok
    /\ "host" \in Unexpected(heap0, T1, T2)
    /\ DeepVal(heap, result["host"]) # DeepVal(heap0, T2["host"])

\* C4: merge(A, A, strict = false) returns a record structurally equal to A:
\* the same keys and section contents, nothing duplicated, no reference list
\* lengthened.
C4_Idempotent ==
    (Merged /\ ~call.strict /\ RecVal(heap0, T1) = RecVal(heap0, T2)) =>
        /\ outcome = Ok
        /\ RecVal(heap, result) = RecVal(heap0, T1)

\* a lenient A + A of a record with a name and a classification returned
C4_Witness ==
    /\ Merged /\ ~call.strict /\ call.x = call.y /\ outcome = Ok
    /\ {"name", "classification"} \subseteq DOMAIN T1

\* C5: the keys of a returned record are the union of the keys of A and B.
C5_KeysAreUnion ==
    (Merged /\ outcome = Ok) => DOMAIN result = DOMAIN T1 \cup DOMAIN T2

\* C6: a key only one operand has appears in the result with that operand's
\* value, held as an independent copy: changing that section of the result in
\* place afterwards does not change the operand.
C6_OneSidedIndependent ==
    /\ (Merged /\ outcome = Ok) =>
          \A k \in OneSided :
              k \in DOMAIN result /\ DeepVal(heap, result[k]) = DeepVal(heap0, Owner(k)[k])
    /\ (pc = "mutated" /\ touched \in OneSided) =>
          DeepVal(heap, Owner(touched)[touched]) = DeepVal(heap0, Owner(touched)[touched])

(***************************************************************************)
(* Focused specifications: the same machine, started from operands that    *)
(* share the base coordinate and vary exhaustively on one section.  One    *)
(* operand has up to MaxLen entries and the other at most one; the calls   *)
(* A + B and B + A put either on the left.                                 *)
(***************************************************************************)
\* the sequences over S of length 0..n
SeqsUpTo(Vs, n) == UNION {[1..m -> Vs] : m \in 0..n}

BaseCoordinate == <<Equatorial(0, "r1")>>

WithSection(key, v) ==
    [k \in {"coordinate", key} |-> IF k = key THEN v ELSE BaseCoordinate]

\* names: every default name with one or two aliases of distinct values
DefaultNames == {N2019abc, NAT2019abc, NAT2, N20x, Nabc, NEmpty}
AliasValues == {N2019abc, NAT2019abc}
AliasEntries == {[value |-> v, reference |-> <<r>>] : v \in AliasValues, r \in {"r1", "r2"}}
AliasLists ==
    {al \in SeqsUpTo(AliasEntries, MaxLen) :
        /\ Len(al) >= 1
        /\ \A i \in 1..Len(al), j \in 1..Len(al) : i # j => al[i].value # al[j].value}
NameRecs == {[default_name |-> d, alias |-> al] : d \in DefaultNames, al \in AliasLists}

InitNames ==
    \E n1 \in NameRecs, n2 \in NameRecs :
        Start(WithSection("name", n1), WithSection("name", n2))

SpecNames == InitNames /\ [][MergeNext]_vars

\* distances: entries whose value is a number, a numeric string, a null, a
\* not-a-number or absent, with or without a unit
TabValues == {VInt(n) : n \in 1..MaxVal} \cup {VStr(1), VNone, VNan}
TabEntries ==
    {Distance(v, "r1") : v \in TabValues}
    \cup {SetField(Distance(v, "r1"), "unit", "Mpc") : v \in TabValues}
    \cup {[reference |-> <<"r1">>, computed |-> FALSE, distance_type |-> "redshift"],
          [reference |-> <<"r1">>, computed |-> FALSE, distance_type |-> "redshift",
           unit |-> "Mpc"]}

InitTab ==
    \E l1 \in SeqsUpTo(TabEntries, MaxLen), l2 \in SeqsUpTo(TabEntries, 1) :
        Start(WithSection("distance", l1), WithSection("distance", l2))

SpecTab == InitTab /\ [][MergeNext]_vars

\* filter aliases: lists that are unique by filter_key, with the same key
\* under one effective wavelength or another
FiltEntries == {FilterAlias(k, w) : k \in {"g", "r"}, w \in 1..MaxVal}
FiltLists ==
    {l \in SeqsUpTo(FiltEntries, MaxLen) :
        \A i \in 1..Len(l), j \in 1..Len(l) : i # j => l[i].filter_key # l[j].filter_key}

InitFilt ==
    \E l1 \in FiltLists, l2 \in FiltLists :
        Start(WithSection("filter_alias", l1), WithSection("filter_alias", l2))

SpecFilt == InitFilt /\ [][MergeNext]_vars

\* photometry: blocks of one or two measurements under one of two
\* references, with or without a telescope; A has at most one block
WithTel(item, t) ==
    [f \in DOMAIN item \cup {"telescope"} |-> IF f = "telescope" THEN S(t) ELSE item[f]]

WithListRef(item) ==
    [f \in DOMAIN item |-> IF f = "reference" THEN L(<<item[f]>>) ELSE item[f]]

\* the blocks whose reference is a string, and those whose reference is a
\* list of one string
MergeBlocks ==
    LET bare == {PhotBlock(ref, S("g"), <<"1">>) : ref \in {"r1", "r2"}}
                \cup {PhotBlock(ref, L(<<S("r"), S("g")>>), <<"1", "2">>) : ref \in {"r1", "r2"}}
    IN  [scalar |-> bare \cup {WithTel(item, "Swift") : item \in bare},
         list |-> {WithListRef(item) : item \in bare}]

InitPhotMerge ==
    \E shape \in {"scalar", "list"} :
        \E l1 \in SeqsUpTo(MergeBlocks[shape], 1),
           l2 \in SeqsUpTo(MergeBlocks[shape], MaxBlocks) :
            Start(WithSection("photometry", l1), WithSection("photometry", l2))

SpecPhotMerge == InitPhotMerge /\ [][MergeNext]_vars

\* coordinates: lists of one or two entries, equatorial or galactic, at 0 or
\* beyond the merge tolerance, with or without a default flag; B has one
\* entry without a flag
CoordEntries ==
    LET bare == {Equatorial(p, "r1") : p \in {0, MergeTolArcsec + 1}}
                \cup {Galactic(0 - p, "r1") : p \in {0, MergeTolArcsec + 1}}
    IN  bare \cup {SetField(e, "default", d) : e \in bare, d \in BOOLEAN}

InitCoord ==
    \E l1 \in SeqsUpTo(CoordEntries, MaxLen) \ {<<>>},
       l2 \in {<<Equatorial(0, "r2")>>, <<Equatorial(MergeTolArcsec + 1, "r2")>>,
               <<Galactic(0, "r2")>>} :
        Start([coordinate |-> l1], [coordinate |-> l2])

SpecCoord == InitCoord /\ [][MergeNext]_vars

\* references: records whose reference_alias names up to MaxLen of three
\* bibcodes, once each, and whose coordinate and classification entries cite
\* bibcodes of that list; A's entries and B's differ in the readable name.
\* One more record cites nothing and has no reference_alias.
RefRecs(hrn) ==
    LET lists == {l \in SeqsUpTo({[name |-> b, human_readable_name |-> hrn] :
                                     b \in Range(Bibcodes)}, MaxLen) :
                     /\ l # <<>>
                     /\ \A i \in 1..Len(l), j \in 1..Len(l) : i # j => l[i].name # l[j].name}
        names(l) == {l[i].name : i \in 1..Len(l)}
    IN  UNION {{[coordinate |-> <<Equatorial(0, c)>>, reference_alias |-> l] :
                   c \in names(l)}
               \cup {[coordinate |-> <<Equatorial(0, c)>>, reference_alias |-> l,
                      classification |-> <<ClassEntry("TDE", 2, k, TRUE)>>] :
                   c \in names(l), k \in names(l)} : l \in lists}
        \cup {[coordinate |-> <<[Equatorial(0, "r1") EXCEPT !.reference = <<>>]>>]}

InitRefs == \E da \in RefRecs("hA"), db \in RefRecs("hB") : Start(da, db)

SpecRefs == InitRefs /\ [][MergeNext]_vars

\* classifications: every class, confidence and default flag
ClassEntries(ref) ==
    {ClassEntry(c, conf, ref, d) : c \in {"SN", "TDE"}, conf \in 0..MaxConf, d \in BOOLEAN}

InitClass ==
    \E l1 \in SeqsUpTo(ClassEntries("r1"), MaxLen),
       l2 \in SeqsUpTo(ClassEntries("r2"), 1) :
        Start(WithSection("classification", l1), WithSection("classification", l2))

SpecClass == InitClass /\ [][MergeNext]_vars

(***************************************************************************)
(* The cone filter of Otter.query.                                         *)
(***************************************************************************)
\* query_coords.separation(coord) < radius * u.arcsec
InsideCone(sep, r) == sep < r

\* the loop over tde["coordinate"] from entry j on: "hit" when an entry lies
\* inside the cone, "error" when an entry has neither ra/dec nor l/b keys
RECURSIVE InCone(_, _, _, _)
InCone(entries, c, r, j) ==
    IF j > Len(entries) THEN "miss"
    ELSE LET e == entries[j]
         IN  IF {"ra", "dec"} \subseteq DOMAIN e
             THEN IF InsideCone(Separation(c, e.ra), r) THEN "hit"
                  ELSE InCone(entries, c, r, j + 1)
             ELSE IF {"l", "b"} \subseteq DOMAIN e
             THEN IF InsideCone(Separation(c, GalToIcrs(e.l)), r) THEN "hit"
                  ELSE InCone(entries, c, r, j + 1)
             ELSE "error"

\* the loop over result from document i on: good_tdes as indices of cat, or
\* the ValueError an entry raised
RECURSIVE ConeLoop(_, _, _, _, _)
ConeLoop(cat, c, r, i, good) ==
    IF i > Len(cat) THEN [res |-> Ok, out |-> good]
    ELSE LET m == InCone(cat[i].coordinate, c, r, 1)
         IN  IF m = "error" THEN [res |-> Raised("ValueError", ""), out |-> <<>>]
             ELSE ConeLoop(cat, c, r, i + 1, IF m = "hit" THEN Append(good, i) ELSE good)

\* query(coords=c, radius=r) on the documents the database returned
ConeQuery ==
    /\ pc = "query"
    /\ LET q == ConeLoop(catalog, qarg.c, qarg.r, 1, <<>>)
       IN  /\ qout' = q.out
           /\ outcome' = q.res
    /\ pc' = "queried"
    /\ UNCHANGED <<heap, recs, call, heap0, result, touched, catalog, qarg, reconVars,
                   photVars, saveVars>>

QueryNext == ConeQuery

\* documents: one or two coordinate entries, equatorial, galactic or with
\* neither pair of keys
Malformed == [reference |-> <<"r1">>, coordinate_type |-> "equitorial"]
CatEntries ==
    {Equatorial(p, "r1") : p \in 0..MaxPos}
    \cup {Galactic(0 - p, "r1") : p \in 0..MaxPos}
    \cup {Malformed}
CatDocs ==
    {[coordinate |-> <<e>>] : e \in CatEntries}
    \cup {[coordinate |-> <<e, g>>] :
            e \in {Equatorial(p, "r1") : p \in 0..MaxPos},
            g \in {Galactic(0 - p, "r1") : p \in {0, MaxPos}} \cup {Malformed}}

\* the radii of the queries: the default of 5 arcseconds and a smaller one
DefaultRadius == 5

InitQuery ==
    /\ heap = <<>>
    /\ recs = [A |-> NoRec, B |-> NoRec]
    /\ pc = "query"
    /\ call = NoCall
    /\ heap0 = <<>>
    /\ result = NoRec
    /\ outcome = Ok
    /\ touched = "none"
    /\ catalog \in SeqsUpTo(CatDocs, MaxCat)
    /\ qarg \in [c : {0, 1}, r : {DefaultRadius - 2, DefaultRadius}]
    /\ qout = <<>>
    /\ ReconIdle
    /\ PhotIdle
    /\ SaveIdle

SpecQuery == InitQuery /\ [][QueryNext]_vars

(***************************************************************************)
(* The reconciliation loop of Otter.query: every private record is merged  *)
(* (strictly: += is __add__ with its default strict_merge) into the first  *)
(* record of partially_merged that accepts it.                             *)
(***************************************************************************)
\* the records of structural values dvs[i..], allocated after h
RECURSIVE BuildAll(_, _, _)
BuildAll(h, dvs, i) ==
    IF i > Len(dvs) THEN [h |-> h, ts |-> <<>>]
    ELSE LET r == BuildRec(h, NoRec, dvs[i], 1)
             rest == BuildAll(r.h, dvs, i + 1)
         IN  [h |-> rest.h, ts |-> <<r.t>> \o rest.ts]

\* partially_merged[ii] += t_private, inside the try
ReconcileTry ==
    /\ pc = "reconcile"
    /\ jj <= Len(private)
    /\ ii <= Len(partial)
    /\ \E nm \in NameChoices(heap, partial[ii], private[jj]),
          done \in DoneChoices(heap, partial[ii], private[jj], TRUE),
          po \in PhotOrders(heap, partial[ii], private[jj]) :
          LET r == Add(heap, partial[ii], private[jj], TRUE, done, nm, po)
              pm == IF r.res = Ok THEN [partial EXCEPT ![ii] = r.out] ELSE partial
          IN  /\ heap' = r.h
              /\ partial' = pm
              /\ tries' = Append(tries,
                     [jj |-> jj, ii |-> ii, res |-> r.res.type,
                      changed |-> {k \in 1..Len(partial) :
                                     RecVal(r.h, pm[k]) # RecVal(heap, partial[k])}])
              /\ IF r.res = Ok
                 THEN jj' = jj + 1 /\ ii' = 1 /\ UNCHANGED <<pc, outcome>>
                 ELSE IF r.res.type = "TransientMergeError"
                 THEN ii' = ii + 1 /\ UNCHANGED <<jj, pc, outcome>>
                 ELSE pc' = "failed" /\ outcome' = r.res /\ UNCHANGED <<jj, ii>>
    /\ UNCHANGED <<recs, call, heap0, result, touched, catalog, qarg, qout,
                   private, newt, photVars, saveVars>>

\* the else of the inner for: no record of partially_merged accepted it
ReconcileNoMatch ==
    /\ pc = "reconcile"
    /\ jj <= Len(private)
    /\ ii > Len(partial)
    /\ newt' = Append(newt, private[jj])
    /\ jj' = jj + 1
    /\ ii' = 1
    /\ UNCHANGED <<heap, recs, pc, call, heap0, result, outcome, touched,
                   catalog, qarg, qout, partial, private, tries, photVars, saveVars>>

\* return partially_merged + new_transients
ReconcileReturn ==
    /\ pc = "reconcile"
    /\ jj > Len(private)
    /\ pc' = "reconciled"
    /\ UNCHANGED <<heap, recs, call, heap0, result, outcome, touched,
                   catalog, qarg, qout, reconVars, photVars, saveVars>>

ReconcileNext == ReconcileTry \/ ReconcileNoMatch \/ ReconcileReturn

\* stored records: three positions of which neighbours are within the merge
\* tolerance and the outer two are not, with one of two classification,
\* reference_alias and host sections
ReconPositions == {0, MergeTolArcsec - 2, 2 * MergeTolArcsec - 4}

ReconRec(p, v) ==
    [k \in {"coordinate", "classification", "reference_alias", "host"} |->
        IF k = "coordinate" THEN <<Equatorial(p, "r1")>> ELSE Opt(k, v)]

ReconRecs == {ReconRec(p, v) : p \in ReconPositions, v \in 1..2}

\* the state when the loop starts: partially_merged is a deep copy of the
\* primary result, private_results are the documents of the private store
InitReconcile ==
    \E pub \in SeqsUpTo(ReconRecs, MaxRecs), prv \in SeqsUpTo(ReconRecs, MaxRecs) :
        LET a == BuildAll(<<>>, pub, 1)
            b == BuildAll(a.h, prv, 1)
        IN  /\ heap = b.h
            /\ heap0 = b.h
            /\ recs = [A |-> NoRec, B |-> NoRec]
            /\ pc = "reconcile"
            /\ call = NoCall
            /\ result = NoRec
            /\ outcome = Ok
            /\ touched = "none"
            /\ catalog = <<>>
            /\ qarg = [c |-> 0, r |-> 0]
            /\ qout = <<>>
            /\ partial = a.ts
            /\ private = b.ts
            /\ newt = <<>>
            /\ jj = 1
            /\ ii = 1
            /\ tries = <<>>
            /\ PhotIdle
            /\ SaveIdle

SpecReconcile == InitReconcile /\ [][ReconcileNext]_vars

(***************************************************************************)
(* The Photometry Normalizer: Transient.clean_photometry.                  *)
(*                                                                         *)
(* A photometry block is a dict whose fields hold a scalar, S(x), or a     *)
(* list, L(q), of such values; scalars are strings.  A filter_alias entry  *)
(* is a dict of strings and numbers, in which NanNum stands for a missing  *)
(* number.  A converted flux or wavelength is the record of the inputs the *)
(* conversion was given.  Dates (converted per row by astropy.time.Time)   *)
(* are not modelled.                                                       *)
(***************************************************************************)
NanNum == 0

Max(A) == IF A = {} THEN 0 ELSE CHOOSE m \in A : \A n \in A : n <= m

Min(a, b) == IF a < b THEN a ELSE b

\* max_len: the longest list-valued field of the block, "reference" aside
MaxLenOf(item) ==
    Max({Len(item[f].l) : f \in {g \in DOMAIN item \ {"reference"} : IsList(item[g])}})

\* the loop that sets item[key] = [val] * max_len on the block itself
Broadcast(item) ==
    LET max_len == MaxLenOf(item)
    IN  [f \in DOMAIN item |->
            IF ~IsList(item[f]) \/ Len(item[f].l) # max_len
            THEN L([i \in 1..max_len |-> item[f]])
            ELSE item[f]]

\* pd.DataFrame(item) of the broadcast block number b
FrameRows(b, item) ==
    [i \in 1..MaxLenOf(item) |->
        [b |-> b, i |-> i, cells |-> [f \in DOMAIN item |-> item[f].l[i]]]]

\* pd.concat(dfs): the rows of the frames from block b on
RECURSIVE ConcatFrames(_, _)
ConcatFrames(items, b) ==
    IF b > Len(items) THEN <<>>
    ELSE FrameRows(b, items[b]) \o ConcatFrames(items, b + 1)

\* c.merge(filters, on="filter_key"): an inner join that keeps the order of
\* the left rows
RECURSIVE MergeFilters(_, _, _)
MergeFilters(rows, fal, k) ==
    IF k > Len(rows) THEN <<>>
    ELSE LET r == rows[k]
             hits == SelectIdx(fal,
                        {j \in 1..Len(fal) :
                            /\ "filter_key" \in DOMAIN r.cells
                            /\ "filter_key" \in DOMAIN fal[j]
                            /\ r.cells.filter_key = S(fal[j].filter_key)}, 1)
         IN  [j \in 1..Len(hits) |->
                 [b |-> r.b, i |-> r.i, cells |-> r.cells, fa |-> hits[j]]]
             \o MergeFilters(rows, fal, k + 1)

\* the cell of a string column (a missing cell is not-a-number)
Cell(row, f) == IF f \in DOMAIN row.cells THEN row.cells[f].s ELSE "nan"

\* the cell of a numeric column that came from filter_alias
FaNum(row, f) == IF f \in DOMAIN row.fa THEN row.fa[f] ELSE NanNum

ValidObsTypes == {"radio", "uvoir", "xray"}

\* the values of the grouping columns, in the order groupby sorts them
ObsTypes == <<"radio", "uvoir", "xray">>
RawUnits == <<"AB", "ct", "mag(AB)">>
Telescopes == <<"None", "Swift", "ZTF", "nan">>

\* the key of the group of a row; tele tells whether df has a telescope column
GroupKey(row, tele) ==
    [obs |-> Cell(row, "obs_type"), unit |-> Cell(row, "raw_units"),
     tel |-> IF tele THEN Cell(row, "telescope") ELSE "None"]

KeyRank(key) ==
    <<FirstIdx(ObsTypes, key.obs), FirstIdx(RawUnits, key.unit),
      FirstIdx(Telescopes, key.tel)>>

KeyLess(a, b) ==
    LET x == KeyRank(a)
        y == KeyRank(b)
    IN  \/ x[1] < y[1]
        \/ x[1] = y[1] /\ x[2] < y[2]
        \/ x[1] = y[1] /\ x[2] = y[2] /\ x[3] < y[3]

\* the group keys in the order df.groupby(to_grp_by, dropna=False) yields them
RECURSIVE SortKeys(_)
SortKeys(ks) ==
    IF ks = {} THEN <<>>
    ELSE LET m == CHOOSE a \in ks : \A b \in ks \ {a} : KeyLess(a, b)
         IN  <<m>> \o SortKeys(ks \ {m})

\* u.Unit(unit), after the fix-up of a bare "AB"
ParseUnit(unit) == IF unit = "AB" THEN "mag(AB)" ELSE unit

\* XRAY_AREAS[telescope.lower()]
Lower(t) == IF t = "Swift" THEN "swift" ELSE IF t = "ZTF" THEN "ztf" ELSE t
XrayAreas == {"swift"}

Unbound == [bound |-> FALSE, v |-> <<>>]
BoundTo(v) == [bound |-> TRUE, v |-> v]

Wave(via, v, lo, hi, unit) == [via |-> via, v |-> v, lo |-> lo, hi |-> hi, unit |-> unit]

\* the state of the loop over the groups: the local variables wave_eff and
\* wave_units, the frames of outdata and the exception raised, if any
LoopState(wave, wunits, out, res) ==
    [wave |-> wave, wunits |-> wunits, out |-> out, res |-> res]

Fail(st, type) == [st EXCEPT !.res = Raised(type, "")]

\* the cell of a string column that came from filter_alias
FaStr(row, f) == IF f \in DOMAIN row.fa THEN row.fa[f] ELSE "nan"

\* one iteration of the loop over the groups: key is the group's key, data
\* its rows and fcols the columns that came from filter_alias
ProcessGroup(st, key, data, fcols) ==
    LET n == Len(data)
        byfreq == "freq_eff" \in fcols /\ FaNum(data[1], "freq_eff") # NanNum
        bywave == "wave_eff" \in fcols /\ FaNum(data[1], "wave_eff") # NanNum
        \* get the effective wavelength
        st1 == IF byfreq
               THEN IF Cardinality({FaStr(r, "freq_units") : r \in Range(data)}) > 1
                    THEN Fail(st, "OtterLimitationError")
                    ELSE [st EXCEPT !.wave = BoundTo(
                              [k \in 1..n |-> Wave("freq", FaNum(data[k], "freq_eff"), 0, 0,
                                                   FaStr(data[1], "freq_units"))])]
               ELSE IF bywave
               THEN IF Cardinality({FaStr(r, "wave_units") : r \in Range(data)}) > 1
                    THEN Fail(st, "OtterLimitationError")
                    ELSE [st EXCEPT !.wunits = BoundTo(FaStr(data[1], "wave_units")),
                                    !.wave = BoundTo(
                              [k \in 1..n |-> Wave("wave", FaNum(data[k], "wave_eff"), 0, 0,
                                                   FaStr(data[1], "wave_units"))])]
               ELSE st
        \* if obstype == "xray"
        st2 == IF st1.res # Ok \/ key.obs # "xray" THEN st1
               ELSE IF key.tel = "None" THEN Fail(st1, "OtterLimitationError")
               ELSE IF key.tel = "nan" THEN Fail(st1, "AttributeError")
               ELSE IF Lower(key.tel) \notin XrayAreas THEN Fail(st1, "OtterLimitationError")
               ELSE IF ~({"wave_min", "wave_max"} \subseteq fcols) THEN Fail(st1, "KeyError")
               ELSE IF ~st1.wunits.bound THEN Fail(st1, "UnboundLocalError")
               ELSE [st1 EXCEPT !.wave = BoundTo(
                        [k \in 1..n |-> Wave("band", 0, FaNum(data[k], "wave_min"),
                                             FaNum(data[k], "wave_max"), st1.wunits.v)])]
        area == IF key.obs = "xray" THEN Lower(key.tel) ELSE "None"
        \* the loop over zip(wave_eff, q, q_err) and the two new columns
    IN  IF st2.res # Ok THEN st2
        ELSE IF ~st2.wave.bound THEN Fail(st2, "UnboundLocalError")
        ELSE IF Min(Len(st2.wave.v), n) # n THEN Fail(st2, "ValueError")
        ELSE [st2 EXCEPT !.out = @ \o
                 [k \in 1..n |->
                     [b |-> data[k].b, i |-> data[k].i, cells |-> data[k].cells,
                      fa |-> data[k].fa,
                      flux |-> [raw |-> Cell(data[k], "raw"), unit |-> ParseUnit(key.unit),
                                wave |-> st2.wave.v[k], area |-> area]]]]

\* the loop over df.groupby(to_grp_by, dropna=False) from the g-th group on
RECURSIVE GroupLoop(_, _, _, _, _, _)
GroupLoop(st, keys, df, tele, fcols, g) ==
    IF g > Len(keys) \/ st.res # Ok THEN st
    ELSE LET data == SelectIdx(df, {k \in 1..Len(df) : GroupKey(df[k], tele) = keys[g]}, 1)
         IN  GroupLoop(ProcessGroup(st, keys[g], data, fcols), keys, df, tele, fcols, g + 1)

\* the value the last loop computes for a row of df
RowWave(row, fcols) ==
    IF "freq_eff" \in fcols /\ FaNum(row, "freq_eff") # NanNum
    THEN Wave("freq", FaNum(row, "freq_eff"), 0, 0, FaStr(row, "freq_units"))
    ELSE IF "wave_eff" \in fcols /\ FaNum(row, "wave_eff") # NanNum
    THEN Wave("wave", FaNum(row, "wave_eff"), 0, 0, FaStr(row, "wave_units"))
    ELSE Wave("none", 0, 0, 0, "nan")

NoTable(type) == [res |-> Raised(type, ""), rows |-> <<>>]

\* df when the loop over the groups starts: the rows of the blocks that have
\* a filter_alias entry, a value and the requested obs_type
Surviving(items, fal, obs) ==
    LET joined == MergeFilters(ConcatFrames(items, 1), fal, 1)
        notna == SelectIdx(joined, {k \in 1..Len(joined) : "raw" \in DOMAIN joined[k].cells}, 1)
    IN  IF obs = "None" THEN notna
        ELSE SelectIdx(notna, {k \in 1..Len(notna) : Cell(notna[k], "obs_type") = obs}, 1)

\* clean_photometry(obs_type=obs) from pd.concat(dfs) on: items are the
\* broadcast blocks and fal is self["filter_alias"]
Clean(items, fal, obs) ==
    LET ccols == UNION {DOMAIN items[b] : b \in 1..Len(items)}
        fcols == Columns(fal)
        df == Surviving(items, fal, obs)
        tele == "telescope" \in ccols
        keys == SortKeys({GroupKey(df[k], tele) : k \in 1..Len(df)})
        loop == GroupLoop(LoopState(Unbound, Unbound, <<>>, Ok), keys, df, tele, fcols, 1)
    IN  IF items = <<>> THEN NoTable("ValueError")
        ELSE IF "filter_key" \notin ccols \/ "filter_key" \notin fcols
        THEN NoTable("KeyError")
        ELSE IF "raw" \notin ccols THEN NoTable("KeyError")
        ELSE IF obs \notin ValidObsTypes \cup {"None"} THEN NoTable("OSError")
        ELSE IF loop.res # Ok THEN NoTable(loop.res.type)
        ELSE IF loop.out = <<>> THEN NoTable("FailedQueryError")
        ELSE IF \E k \in 1..Len(df) : RowWave(df[k], fcols).via = "none"
        THEN NoTable("ValueError")
        ELSE [res |-> Ok,
              rows |-> [k \in 1..Len(loop.out) |->
                          [b |-> loop.out[k].b, i |-> loop.out[k].i,
                           cells |-> loop.out[k].cells, fa |-> loop.out[k].fa,
                           flux |-> loop.out[k].flux,
                           converted_wave |-> RowWave(df[k], fcols)]]]

\* t.clean_photometry(obs_type=parg): the blocks are broadcast in place, then
\* the table is built from them
CleanPhotometry ==
    /\ pc = "clean"
    /\ Len(tables) < 2
    /\ LET items == [b \in 1..Len(phot) |-> Broadcast(phot[b])]
       IN  /\ phot' = items
           /\ tables' = Append(tables, Clean(items, falias, parg))
    /\ UNCHANGED <<heap, recs, pc, call, heap0, result, outcome, touched,
                   catalog, qarg, qout, reconVars, phot0, falias, parg, saveVars>>

PhotNext == CleanPhotometry

\* blocks: one or two measurements of one filter, with the obs_type, unit,
\* filter and reference as scalars or as one-element lists
Block(n, obs, unit, fkey, ref) ==
    [raw |-> L([i \in 1..n |-> S("1")]), raw_units |-> S(unit), obs_type |-> S(obs),
     filter_key |-> S(fkey), reference |-> ref]

WithTelescope(item, t) ==
    [f \in DOMAIN item \cup {"telescope"} |-> IF f = "telescope" THEN S(t) ELSE item[f]]

PhotBlocks ==
    LET bare == {Block(n, "uvoir", unit, fkey, ref) :
                    n \in 1..MaxLen, unit \in {"AB"}, fkey \in {"g", "q"},
                    ref \in {S("r1"), L(<<S("r1")>>)}}
                \cup {Block(n, "xray", "ct", "x", ref) :
                    n \in 1..MaxLen, ref \in {S("r1"), L(<<S("r1")>>)}}
    IN  bare \cup {WithTelescope(item, t) : item \in bare, t \in {"Swift", "ZTF"}}

XrayAlias(k, w, lo, hi) ==
    [filter_key |-> k, filter_name |-> k, wave_eff |-> w, wave_units |-> "nm",
     wave_min |-> lo, wave_max |-> hi]

\* an X-ray filter given by its effective frequency
FreqXrayAlias(k, f, lo, hi) ==
    [filter_key |-> k, filter_name |-> k, freq_eff |-> f, freq_units |-> "Hz",
     wave_units |-> "AA", wave_min |-> lo, wave_max |-> hi]

FilterLists ==
    {<<>>, <<FilterAlias("g", 1)>>, <<FilterAlias("g", 1), XrayAlias("x", 3, 2, 4)>>,
     <<FilterAlias("g", 1), FreqXrayAlias("x", 5, 2, 4)>>,
     <<FilterAlias("g", 1), XrayAlias("x", NanNum, 2, 4)>>}

ObsArgs == {"None", "uvoir", "xray", "radio", "optical"}

InitPhot ==
    /\ heap = <<>>
    /\ recs = [A |-> NoRec, B |-> NoRec]
    /\ pc = "clean"
    /\ call = NoCall
    /\ heap0 = <<>>
    /\ result = NoRec
    /\ outcome = Ok
    /\ touched = "none"
    /\ catalog = <<>>
    /\ qarg = [c |-> 0, r |-> 0]
    /\ qout = <<>>
    /\ ReconIdle
    /\ phot \in SeqsUpTo(PhotBlocks, MaxBlocks)
    /\ phot0 = phot
    /\ falias \in FilterLists
    /\ parg \in ObsArgs
    /\ tables = <<>>
    /\ SaveIdle

SpecPhot == InitPhot /\ [][PhotNext]_vars

(***************************************************************************)
(* Otter.save: every document of the batch is looked up by position in     *)
(* summary.csv and written as a new file or merged into the one match.     *)
(* A document is a record as a structural value (key -> value).            *)
(***************************************************************************)
SearchTolArcsec == 5

\* Transient(doc).get_skycoord()
SkycoordOf(doc) == LET r == BuildRec(<<>>, NoRec, doc, 1) IN GetSkycoord(r.h, r.t)

\* res[0] + transient: every outcome of the strict merge of two documents
MergeDocs(da, db) ==
    LET ra == BuildRec(<<>>, NoRec, da, 1)
        rb == BuildRec(ra.h, NoRec, db, 1)
        merged(nm, done, po) == Add(rb.h, ra.t, rb.t, TRUE, done, nm, po)
    IN  UNION {{[res |-> merged(nm, done, po).res,
                 doc |-> RecVal(merged(nm, done, po).h, merged(nm, done, po).out)] :
                   nm \in NameChoices(rb.h, ra.t, rb.t),
                   done \in DoneChoices(rb.h, ra.t, rb.t, TRUE)} :
               po \in PhotOrders(rb.h, ra.t, rb.t)}

\* name.replace(" ", "-")
FileName(n) == [i \in 1..Len(n) |-> IF n[i] = " " THEN "-" ELSE n[i]]

\* _save_document: the files the document may be written to, an existing
\* file named after one of its aliases or else a file named after it
SaveTargets(files, doc) ==
    LET aliases == {FileName(doc.name.alias[i].value) : i \in 1..Len(doc.name.alias)}
        todel == aliases \cap DOMAIN files
    IN  IF todel # {} THEN todel ELSE {FileName(doc.name.default_name)}

\* _save_document: the files after doc is written to path
SaveDocument(files, doc, path) ==
    [f \in DOMAIN files \cup {path} |-> IF f = path THEN doc ELSE files[f]]

\* generate_summary_table: one row per JSON file
GenerateSummary(files) ==
    {[pos |-> SkycoordOf(files[f]).p, path |-> f] : f \in DOMAIN files}

\* _query_datadir(coords=coord): the rows search_around_sky keeps
QueryDatadir(rows, coord) ==
    {r \in rows : Separation(r.pos, coord.p) <= SearchTolArcsec}

\* the body of the loop of save for the document t, with res the matching
\* rows: the files afterwards and how the iteration ended
SaveBody(files, t, res) ==
    IF Cardinality(res) = 0
    THEN {[files |-> SaveDocument(files, t, path), res |-> Ok] :
            path \in SaveTargets(files, t)}
    ELSE IF Cardinality(res) = 1
    THEN UNION {IF m.res = Ok
                THEN {[files |-> SaveDocument(files, m.doc, path), res |-> Ok] :
                        path \in SaveTargets(files, m.doc)}
                ELSE {[files |-> files, res |-> m.res]} :
                  m \in MergeDocs(files[(CHOOSE r \in res : TRUE).path], t)}
    ELSE {[files |-> files, res |-> Raised("OtterLimitationError", "")]}

\* one iteration of the loop over schema; summary.csv is generated by
\* _query_datadir when it does not exist, otherwise read as it is
SaveOne ==
    /\ pc = "save"
    /\ sk <= Len(batch)
    /\ LET t == batch[sk]
           coord == SkycoordOf(t)
           rows == IF summary.exists THEN summary.rows ELSE GenerateSummary(store)
           near == {f \in DOMAIN store :
                      Separation(SkycoordOf(store[f]).p, coord.p) <= SearchTolArcsec}
       IN  /\ summary' = [exists |-> TRUE, rows |-> rows]
           /\ \E w \in SaveBody(store, t, QueryDatadir(rows, coord)) :
                 /\ store' = w.files
                 /\ outcome' = w.res
                 /\ slog' = Append(slog, [doc |-> t, near |-> near, before |-> store,
                                          after |-> w.files, res |-> w.res.type])
                 /\ IF w.res = Ok THEN sk' = sk + 1 /\ pc' = pc
                    ELSE sk' = sk /\ pc' = "failed"
    /\ UNCHANGED <<heap, recs, call, heap0, result, touched, catalog, qarg, qout,
                   reconVars, photVars, batch>>

\* after the loop: self.generate_summary_table(save=True)
SaveFinish ==
    /\ pc = "save"
    /\ sk > Len(batch)
    /\ summary' = [exists |-> TRUE, rows |-> GenerateSummary(store)]
    /\ pc' = "saved"
    /\ UNCHANGED <<heap, recs, call, heap0, result, outcome, touched, catalog, qarg,
                   qout, reconVars, photVars, store, batch, sk, slog>>

SaveNext == SaveOne \/ SaveFinish

\* documents: three names and three positions, of which neighbours are
\* within the search tolerance and the outer two are not
NATsp2 == <<"A", "T", " ", "2">>
SaveNames == {N2019abc, NAT2019abc, NATsp2}
SavePositions == {0, SearchTolArcsec - 2, 2 * SearchTolArcsec - 4}

SaveDoc(n, p) ==
    [name |-> NameOf(n, "r1"), coordinate |-> <<Equatorial(p, "r1")>>,
     reference_alias |-> <<RefAlias("r1")>>]

SaveDocs == {SaveDoc(n, p) : n \in SaveNames, p \in SavePositions}

\* DATADIR holds up to MaxRecs documents, each in the file named after it;
\* summary.csv is up to date, or has not been written yet
InitSave ==
    /\ heap = <<>>
    /\ recs = [A |-> NoRec, B |-> NoRec]
    /\ pc = "save"
    /\ call = NoCall
    /\ heap0 = <<>>
    /\ result = NoRec
    /\ outcome = Ok
    /\ touched = "none"
    /\ catalog = <<>>
    /\ qarg = [c |-> 0, r |-> 0]
    /\ qout = <<>>
    /\ ReconIdle
    /\ PhotIdle
    /\ \E F \in {G \in SUBSET SaveNames : Cardinality(G) <= MaxRecs} :
          \E pos \in [F -> SavePositions] :
              store = [f \in {FileName(n) : n \in F} |->
                          LET n == CHOOSE m \in F : FileName(m) = f
                          IN  SaveDoc(n, pos[n])]
    /\ summary \in {[exists |-> TRUE, rows |-> GenerateSummary(store)],
                    [exists |-> FALSE, rows |-> {}]}
    /\ batch \in SeqsUpTo(SaveDocs, MaxRecs)
    /\ sk = 1
    /\ slog = <<>>

SpecSave == InitSave /\ [][SaveNext]_vars

(***************************************************************************)
(* Properties of the field mergers.                                        *)
(***************************************************************************)
NameVal(h, t) == h[t["name"]].val

SameCoordinates == DeepVal(heap0, T1["coordinate"]) = DeepVal(heap0, T2["coordinate"])

\* the operands of Scenario 1, in either order
Scenario1 ==
    /\ Merged /\ outcome = Ok /\ SameCoordinates
    /\ \E r1 \in {"r1", "r2"}, r2 \in {"r1", "r2"} :
          {NameVal(heap0, T1), NameVal(heap0, T2)}
              = {NameOf(N2019abc, r1), NameOf(NAT2019abc, r2)}

Scenario1Aliases ==
    LET al == NameVal(heap, result).alias
    IN  /\ Len(al) = 2
        /\ Range(al) = Range(NameVal(heap0, T1).alias) \cup Range(NameVal(heap0, T2).alias)

\* C7 as stated: merging the records named "2019abc" and "AT2019abc" gives
\* both aliases with their reference lists and default_name "AT2019abc".
C7_DefaultIsAT ==
    Scenario1 => /\ Scenario1Aliases
                 /\ NameVal(heap, result).default_name = NAT2019abc

\* C7 as amended: the merged record has both aliases with their reference
\* lists, and its default_name is "2019abc" (score 3 against 2), in either
\* operand order.
C7_DefaultIsDigits ==
    Scenario1 => /\ Scenario1Aliases
                 /\ NameVal(heap, result).default_name = N2019abc

\* the scenario was merged with "AT2019abc" as the left operand
C7_Witness ==
    /\ Scenario1
    /\ NameVal(heap0, T1).default_name = NAT2019abc
    /\ NameVal(heap0, T2).default_name = N2019abc

\* the entry lists of the last call's tabular section
TabL1 == DeepVal(heap0, T1["distance"])
TabL2 == DeepVal(heap0, T2["distance"])

\* C8: the Tabular Merge Primitive returns at most |L1| + |L2| entries and
\* every one of them is structurally equal to an entry of L1 or of L2.
C8_TabularSubset ==
    (Merged /\ outcome = Ok /\ "distance" \in DOMAIN T1 \cap DOMAIN T2
       /\ TabL1 # TabL2) =>
        LET out == DeepVal(heap, result["distance"])
        IN  /\ Len(out) <= Len(TabL1) + Len(TabL2)
            /\ \A i \in 1..Len(out) : out[i] \in Range(TabL1) \cup Range(TabL2)

\* the classification list of the last call's result
ClassOut == DeepVal(heap, result["classification"])

ClassMerged ==
    /\ Merged /\ outcome = Ok /\ "classification" \in DOMAIN T1 \cap DOMAIN T2
    /\ DeepVal(heap0, T1["classification"]) # DeepVal(heap0, T2["classification"])

\* C9: after a classification merge exactly one entry has default = true and
\* it is the first entry of maximum confidence, whatever default flags and
\* structurally identical entries the inputs carry.
C9_OneDefault ==
    ClassMerged =>
        /\ Cardinality({i \in 1..Len(ClassOut) : ClassOut[i].default}) = 1
        /\ ClassOut[MaxConfIdx(ClassOut)].default

\* C10: the cone filter returns exactly the records that have a coordinate
\* entry within r of c, a separation equal to r included, each once and in
\* the order of the unfiltered result.
HasEntryWithin(doc, c, r) ==
    \E j \in 1..Len(doc.coordinate) :
        LET e == doc.coordinate[j]
        IN  \/ "ra" \in DOMAIN e /\ Abs(c - e.ra) <= r
            \/ "l" \in DOMAIN e /\ Abs(c - GalToIcrs(e.l)) <= r

C10_ConeInclusive ==
    (pc = "queried" /\ outcome = Ok) =>
        qout = SelectIdx([i \in 1..Len(catalog) |-> i],
                         {i \in 1..Len(catalog) : HasEntryWithin(catalog[i], qarg.c, qarg.r)},
                         1)

\* the tries made for the private record j, in order
TriesOf(j) == SelectIdx(tries, {n \in 1..Len(tries) : tries[n].jj = j}, 1)

Absorbed(j) == \E n \in 1..Len(tries) : tries[n].jj = j /\ tries[n].res = "ok"

\* private records are tried against the primaries in result order up to the
\* first success, and a success changes no primary but the absorbing one
C11_FirstMatch ==
    \A j \in 1..Len(private) :
        LET t == TriesOf(j)
        IN  \A n \in 1..Len(t) :
              /\ t[n].ii = n
              /\ t[n].res = "ok" => n = Len(t) /\ t[n].changed \subseteq {n}
              /\ n < Len(t) => t[n].res = "TransientMergeError"

\* the returned set is the primaries followed by the unabsorbed private
\* records in their order
C11_Appended ==
    pc = "reconciled" =>
        newt = SelectIdx(private, {j \in 1..Len(private) : ~Absorbed(j)}, 1)

\* C11: each private record is tried against the primary records in result
\* order and absorbed by the first one whose merge succeeds, no later primary
\* being tried or changed; a private record no primary accepts is appended to
\* the returned set structurally unchanged.
C11_Reconcile ==
    /\ C11_FirstMatch
    /\ C11_Appended
    /\ pc = "reconciled" =>
          \A j \in 1..Len(private) :
              ~Absorbed(j) => RecVal(heap, private[j]) = RecVal(heap0, private[j])

\* the calls of clean_photometry made so far
PhotCalls == 1..Len(tables)

\* the rows that reach the conversion loop of every call (the blocks are
\* broadcast by the first call at the latest)
PhotRows == Surviving(phot, falias, parg)

\* C12: normalizing a record with an X-ray block that has no telescope field
\* (and whose rows reach the conversion) fails with OtterLimitationError, also
\* when other blocks of the record carry a telescope field.
C12_XrayNoTelescope ==
    \A n \in PhotCalls :
        (/\ parg \in ValidObsTypes \cup {"None"}
         /\ \E k \in 1..Len(PhotRows) :
               /\ Cell(PhotRows[k], "obs_type") = "xray"
               /\ "telescope" \notin DOMAIN PhotRows[k].cells)
        => tables[n].res.type = "OtterLimitationError"

\* the second half of C13: two successive calls give equal results
C13_SameTables == Len(tables) = 2 => tables[1] = tables[2]

\* C13: clean_photometry does not modify the record: after a call, returned or
\* raised, every block has the fields and values it had before, and two
\* successive calls return equal tables.
C13_RecordUnchanged ==
    /\ tables # <<>> => phot = phot0
    /\ C13_SameTables

\* the second half of C14: a returned table has at least one row
C14_NeverEmpty == \A n \in PhotCalls : tables[n].res = Ok => tables[n].rows # <<>>

\* C14: when no measurement row survives to the conversion (no block, no
\* filter_alias match or no row of the requested obs_type) the call fails with
\* FailedQueryError, and no call returns a table without rows.
C14_NoData ==
    /\ \A n \in PhotCalls :
          (parg \in ValidObsTypes \cup {"None"} /\ PhotRows = <<>>)
              => tables[n].res.type = "FailedQueryError"
    /\ C14_NeverEmpty

\* C15: during save, a document that more than one stored document matches
\* within the search tolerance raises OtterLimitationError and nothing is
\* written; one that no stored document matches is stored as it is; one that
\* exactly one stored document matches is stored as the merge of that
\* document with it.
C15_SaveByMatches ==
    \A n \in 1..Len(slog) :
        LET e == slog[n]
        IN  /\ Cardinality(e.near) > 1 =>
                  e.res = "OtterLimitationError" /\ e.after = e.before
            /\ Cardinality(e.near) = 0 =>
                  e.res = "ok" /\ \E f \in DOMAIN e.after : e.after[f] = e.doc
            /\ Cardinality(e.near) = 1 =>
                  /\ e.res = "ok"
                  /\ \E f \in DOMAIN e.after, g \in e.near :
                        \E m \in MergeDocs(e.before[g], e.doc) :
                            m.res = Ok /\ e.after[f] = m.doc

\* C15 for the first document of a batch only
C15_FirstOfBatch == Len(slog) = 1 => C15_SaveByMatches

\* the name sections of the last call's operands and of its result
Name1 == NameVal(heap0, T1)
Name2 == NameVal(heap0, T2)
NameOut == NameVal(heap, result)

NamesMerged == Merged /\ outcome = Ok /\ Name1 # Name2

AliasValuesOf(al) == {al[i].value : i \in 1..Len(al)}

\* the reference list of the alias v in the alias list al
RefsOf(al, v) == al[CHOOSE i \in 1..Len(al) : al[i].value = v].reference

\* C16: when the name sections differ, the merged alias list holds every
\* alias value of A or B exactly once; an alias of one side keeps that side's
\* reference list and an alias of both sides has A's list followed by B's,
\* duplicates retained.
C16_AliasUnion ==
    NamesMerged =>
        LET al == NameOut.alias
            v1 == AliasValuesOf(Name1.alias)
            v2 == AliasValuesOf(Name2.alias)
        IN  /\ AliasValuesOf(al) = v1 \cup v2
            /\ Len(al) = Cardinality(v1 \cup v2)
            /\ \A i \in 1..Len(al) :
                  al[i].reference =
                      IF al[i].value \in v1 \cap v2
                      THEN RefsOf(Name1.alias, al[i].value) \o RefsOf(Name2.alias, al[i].value)
                      ELSE IF al[i].value \in v1 THEN RefsOf(Name1.alias, al[i].value)
                      ELSE RefsOf(Name2.alias, al[i].value)

\* a merge in which one alias is on both sides with different references and
\* another alias is on the right side only
C16_Witness ==
    /\ NamesMerged
    /\ \E v \in AliasValuesOf(Name1.alias) \cap AliasValuesOf(Name2.alias) :
          RefsOf(Name1.alias, v) # RefsOf(Name2.alias, v)
    /\ AliasValuesOf(Name2.alias) \ AliasValuesOf(Name1.alias) # {}
    /\ Len(NameOut.alias) = 2

\* the number of tests of the claim that the name n passes
PatternScore(n) ==
    B2N(n # <<>> /\ Head(n) \in Digits)
    + B2N(n # <<>>)
    + B2N(Len(n) >= 3 /\ {n[1], n[2], n[3]} \subseteq Digits)
    + B2N(Len(n) >= 2 /\ SubSeq(n, 1, 2) = <<"A", "T">>)

TabMerged ==
    /\ Merged /\ outcome = Ok /\ "distance" \in DOMAIN T1 \cap DOMAIN T2
    /\ TabL1 # TabL2

TabOut == DeepVal(heap, result["distance"])

\* the entries of L1 then L2 without the structural repetitions
FirstOccurrences(rows) ==
    SelectIdx(rows, {i \in 1..Len(rows) : \A j \in 1..(i - 1) : rows[j] # rows[i]}, 1)

\* C18: the output of the Tabular Merge Primitive has no two structurally
\* equal entries, holds an equal entry for every entry of L1 and L2, and is
\* the entries of L1 then L2 in order of first occurrence, two entries being
\* collapsed only if they are equal in every field value and type.
C18_StructuralDedup ==
    TabMerged =>
        /\ \A i \in 1..Len(TabOut), j \in 1..Len(TabOut) : i # j => TabOut[i] # TabOut[j]
        /\ Range(TabL1) \cup Range(TabL2) \subseteq Range(TabOut)
        /\ TabOut = FirstOccurrences(TabL1 \o TabL2)

\* the positions of L1 \o L2 that the merge kept, in order
TabKept ==
    SelectIdx([i \in 1..(Len(TabL1) + Len(TabL2)) |-> i],
              DropDuplicates(RowKeys(TabL1, TabL2)), 1)

\* C19: every output entry of the Tabular Merge Primitive has exactly the
\* fields of the input entry it comes from: none that the entry lacked and
\* every one that it had.
C19_SameFields ==
    TabMerged =>
        /\ Len(TabOut) = Len(TabKept)
        /\ \A k \in 1..Len(TabOut) :
              DOMAIN TabOut[k] = DOMAIN (TabL1 \o TabL2)[TabKept[k]]

\* the half of C19 that holds: no output entry has a field its input lacked
\* or a null value the input did not have
C19_NoAddedFields ==
    TabMerged =>
        \A k \in 1..Len(TabOut) :
            /\ DOMAIN TabOut[k] \subseteq DOMAIN (TabL1 \o TabL2)[TabKept[k]]
            /\ \A f \in DOMAIN TabOut[k] : TabOut[k][f] = (TabL1 \o TabL2)[TabKept[k]][f]

ClassL1 == DeepVal(heap0, T1["classification"])
ClassL2 == DeepVal(heap0, T2["classification"])

ClassIdx(al, c) == {j \in 1..Len(al) : al[j].object_class = c}

ConfidencesOf(al, c) == {al[i].confidence : i \in ClassIdx(al, c)}

\* the object classes that A and B both have, once each
OnceEach == {c \in {"SN", "TDE"} :
                Cardinality(ClassIdx(ClassL1, c)) = 1 /\ Cardinality(ClassIdx(ClassL2, c)) = 1}

HigherOf(c) ==
    LET c1 == CHOOSE x \in ConfidencesOf(ClassL1, c) : TRUE
        c2 == CHOOSE x \in ConfidencesOf(ClassL2, c) : TRUE
    IN  IF c2 > c1 THEN c2 ELSE c1

\* C20: for an object_class that A and B both have (once each), the merged
\* entry's confidence is the higher of the two confidences, fractional values
\* included.
C20_HigherConfidence ==
    ClassMerged =>
        \A c \in OnceEach : ConfidencesOf(ClassOut, c) = {HigherOf(c)}

\* C20 for confidences that are whole numbers: the higher one is kept
C20_WholeNumbers ==
    ClassMerged =>
        \A c \in OnceEach :
            (\A x \in ConfidencesOf(ClassL1, c) \cup ConfidencesOf(ClassL2, c) : x % ConfDen = 0)
                => ConfidencesOf(ClassOut, c) = {HigherOf(c)}

\* the no-NaN half of C18: lists whose values are all present and not NaN
TabPlain ==
    \A i \in 1..Len(TabL1 \o TabL2) :
        "value" \in DOMAIN (TabL1 \o TabL2)[i]
            => (TabL1 \o TabL2)[i]["value"].t \in {"int", "str"}

C18_PlainDedup ==
    (TabMerged /\ TabPlain) => TabOut = FirstOccurrences(TabL1 \o TabL2)

FiltL1 == DeepVal(heap0, T1["filter_alias"])
FiltL2 == DeepVal(heap0, T2["filter_alias"])
FiltOut == DeepVal(heap, result["filter_alias"])

FiltMerged ==
    /\ Merged /\ outcome = Ok /\ "filter_alias" \in DOMAIN T1 \cap DOMAIN T2
    /\ FiltL1 # FiltL2

FilterKeysOf(l) == {l[i].filter_key : i \in 1..Len(l)}

\* C21: when the filter_alias sections of A and B differ, the merged section
\* has exactly one entry per filter_key of A or B: A's entries first, in A's
\* order and also for a key that B has with another entry, then B's entries
\* for the keys A lacks.
C21_FilterUnion ==
    FiltMerged =>
        /\ FilterKeysOf(FiltOut) = FilterKeysOf(FiltL1) \cup FilterKeysOf(FiltL2)
        /\ \A i \in 1..Len(FiltOut), j \in 1..Len(FiltOut) :
              i # j => FiltOut[i].filter_key # FiltOut[j].filter_key
        /\ SubSeq(FiltOut, 1, Len(FiltL1)) = FiltL1
        /\ \A i \in (Len(FiltL1) + 1)..Len(FiltOut) :
              FiltOut[i] \in Range(FiltL2) /\ FiltOut[i].filter_key \notin FilterKeysOf(FiltL1)

\* a merge in which B has another entry for a key of A and a key that A lacks
C21_Witness ==
    /\ FiltMerged
    /\ \E e1 \in Range(FiltL1), e2 \in Range(FiltL2) :
          e1.filter_key = e2.filter_key /\ e1 # e2
    /\ FilterKeysOf(FiltL2) \ FilterKeysOf(FiltL1) # {}
    /\ Len(FiltOut) = Len(FiltL1) + 1

PhotL1 == DeepVal(heap0, T1["photometry"])
PhotL2 == DeepVal(heap0, T2["photometry"])
PhotOut == DeepVal(heap, result["photometry"])

PhotMerged ==
    /\ Merged /\ outcome = Ok /\ "photometry" \in DOMAIN T1 \cap DOMAIN T2
    /\ PhotL1 # PhotL2

BlockRefs(l) == {l[i].reference : i \in 1..Len(l)}

\* C22: B's photometry blocks are processed in order; a block whose reference
\* is that of no block already in the result (A's blocks and the blocks of B
\* appended before it) is appended, any other block is merged into the block
\* with its reference and adds none: the result has A's blocks and one more
\* block per reference that only B has.
C22_AppendOrMerge ==
    PhotMerged =>
        /\ Len(PhotOut) = Len(PhotL1) + Cardinality(BlockRefs(PhotL2) \ BlockRefs(PhotL1))
        /\ \A i \in (Len(PhotL1) + 1)..Len(PhotOut), j \in (Len(PhotL1) + 1)..Len(PhotOut) :
              i # j => PhotOut[i].reference # PhotOut[j].reference

\* the part of C22 about A's blocks: a block of B with the reference of a
\* block of A adds no block, every other block of B is appended in order
C22_AgainstA ==
    PhotMerged =>
        /\ Len(PhotOut) >= Len(PhotL1)
        /\ SubSeq(PhotOut, Len(PhotL1) + 1, Len(PhotOut))
              = SelectIdx(PhotL2, {j \in 1..Len(PhotL2) :
                                      PhotL2[j].reference \notin BlockRefs(PhotL1)}, 1)

\* the measurement rows of a block: its fields other than the reference,
\* scalars repeated along the lists
BlockRows(item) ==
    [i \in 1..MaxLenOf(item) |->
        [f \in DOMAIN item \ {"reference"} |->
            IF IsList(item[f]) THEN item[f].l[i] ELSE item[f]]]

\* the rows the claim gives the merge of the blocks b1 and b2
JoinedRows(b1, b2) ==
    LET rows1 == Range(BlockRows(b1))
        rows2 == Range(BlockRows(b2))
        cols == (DOMAIN b1 \cup DOMAIN b2) \ {"reference"}
        common == (DOMAIN b1 \cap DOMAIN b2) \ {"reference"}
        same(r1, r2) == \A c \in common : r1[c] = r2[c]
    IN  {JoinRow(p[1], p[2], cols) : p \in {q \in rows1 \X rows2 : same(q[1], q[2])}}
        \cup {JoinRow(r1, <<>>, cols) : r1 \in {q \in rows1 : \A r2 \in rows2 : ~same(q, r2)}}
        \cup {JoinRow(r2, <<>>, cols) : r2 \in {q \in rows2 : \A r1 \in rows1 : ~same(r1, q)}}

\* the pairs (i, j): block j of B is the one block of B with the reference
\* of block i of A, the first block of A with it
SameRefPairs ==
    {p \in (1..Len(PhotL1)) \X (1..Len(PhotL2)) :
        /\ RefName(PhotL1[p[1]].reference) = RefName(PhotL2[p[2]].reference)
        /\ \A i \in 1..(p[1] - 1) :
              RefName(PhotL1[i].reference) # RefName(PhotL1[p[1]].reference)
        /\ \A j \in 1..Len(PhotL2) :
              j # p[2] => RefName(PhotL2[j].reference) # RefName(PhotL2[p[2]].reference)}

PhotCalled ==
    /\ Merged /\ "photometry" \in DOMAIN T1 \cap DOMAIN T2
    /\ PhotL1 # PhotL2

\* C23: when a block of B is merged into the block of A with its reference,
\* the merged block takes the place of A's block and holds every measurement
\* row of both: rows equal on the common columns once, every other row of
\* either block, with null in the columns the row's block lacks.
C23_MergedRows ==
    PhotCalled =>
        \A p \in SameRefPairs :
            /\ outcome = Ok
            /\ Range(BlockRows(PhotOut[p[1]])) = JoinedRows(PhotL1[p[1]], PhotL2[p[2]])
            /\ MaxLenOf(PhotOut[p[1]]) = Cardinality(JoinedRows(PhotL1[p[1]], PhotL2[p[2]]))

\* C23 for blocks pd.DataFrame accepts: a reference that is a string, or a
\* list as long as the block's other lists
C23_FramedBlocks ==
    PhotCalled =>
        \A p \in SameRefPairs :
            (\A l \in {PhotL1, PhotL2} : \A i \in 1..Len(l) : FrameOk(l[i])) =>
                /\ outcome = Ok
                /\ Range(BlockRows(PhotOut[p[1]])) = JoinedRows(PhotL1[p[1]], PhotL2[p[2]])
                /\ MaxLenOf(PhotOut[p[1]]) = Cardinality(JoinedRows(PhotL1[p[1]], PhotL2[p[2]]))

\* the position of a coordinate entry in the common frame
EntryPos(e) == IF "ra" \in DOMAIN e THEN e.ra ELSE GalToIcrs(e.l)

\* the first entry of the list that is in the set of indices
FirstOf(entries, idx) == entries[CHOOSE i \in idx : \A j \in idx : i <= j]

\* the canonical position as the claim gives it: the entry flagged default,
\* else the first equatorial entry, else the first galactic entry
CanonicalPos(entries) ==
    LET all == 1..Len(entries)
        flagged == {i \in all : "default" \in DOMAIN entries[i] /\ entries[i].default}
        equ == {i \in all : entries[i].coordinate_type = "equitorial"}
    IN  EntryPos(FirstOf(entries, IF flagged # {} THEN flagged
                                  ELSE IF equ # {} THEN equ ELSE all))

CoordL1 == DeepVal(heap0, T1["coordinate"])
CoordL2 == DeepVal(heap0, T2["coordinate"])

\* C24: the spatial matcher places a record at its entry flagged default,
\* equatorial or galactic, else at its first equatorial entry, else at its
\* first galactic entry transformed to the common frame, and a record with
\* galactic entries only has a position: a strict merge is rejected exactly
\* when these positions are farther apart than the tolerance, and raises
\* nothing else.
C24_CanonicalPosition ==
    (Merged /\ call.strict) =>
        /\ outcome \in {Ok, Rejected("not within 10 arcseconds")}
        /\ outcome = Rejected("not within 10 arcseconds")
              <=> Abs(CanonicalPos(CoordL1) - CanonicalPos(CoordL2)) > MergeTolArcsec

\* C24 among the equatorial entries: for records that have one, the position
\* is that of the equatorial entry flagged default, else of the first one
C24_AmongEquatorial ==
    LET equ(l) == SelectIdx(l, {i \in 1..Len(l) : l[i].coordinate_type = "equitorial"}, 1)
    IN  (Merged /\ call.strict /\ equ(CoordL1) # <<>> /\ equ(CoordL2) # <<>>) =>
            /\ outcome \in {Ok, Rejected("not within 10 arcseconds")}
            /\ outcome = Rejected("not within 10 arcseconds")
                  <=> Abs(CanonicalPos(equ(CoordL1)) - CanonicalPos(equ(CoordL2)))
                          > MergeTolArcsec

\* the private record j lies within the merge tolerance of the primary i
WithinTol(i, j) ==
    Separation(GetSkycoord(heap, partial[i]).p, GetSkycoord(heap, private[j]).p)
        <= MergeTolArcsec

\* C25: reconcile merges leniently and skips a pair only when the two records
\* are not close enough: a private record within the merge tolerance of a
\* primary record is absorbed, also when the two share a key that has no
\* registered merger, and a private record farther than the tolerance from
\* every primary record is absorbed by none.
C25_LenientReconcile ==
    pc = "reconciled" =>
        \A j \in 1..Len(private) :
            Absorbed(j) <=> \E i \in 1..Len(partial) : WithinTol(i, j)

\* the half of C25 about far records: no primary absorbs a private record
\* that is farther than the tolerance from all of them
C25_FarNotAbsorbed ==
    pc = "reconciled" =>
        \A j \in 1..Len(private) :
            Absorbed(j) => \E i \in 1..Len(partial) : WithinTol(i, j)

\* C26: in a returned table every row's converted_wave and converted_freq
\* come from the effective frequency or wavelength of that row's own
\* filter_alias entry, also when the rows of the groups are interleaved in
\* the order of the record's measurements.
C26_OwnWavelength ==
    \A n \in PhotCalls :
        tables[n].res = Ok =>
            \A k \in 1..Len(tables[n].rows) :
                tables[n].rows[k].converted_wave
                    = RowWave(tables[n].rows[k], Columns(falias))

\* C26 for tables whose rows come out in the order of the measurements
C26_SameOrder ==
    \A n \in PhotCalls :
        (tables[n].res = Ok
         /\ \A k \in 1..Len(tables[n].rows) :
               /\ tables[n].rows[k].b = PhotRows[k].b
               /\ tables[n].rows[k].i = PhotRows[k].i) =>
            \A k \in 1..Len(tables[n].rows) :
                tables[n].rows[k].converted_wave
                    = RowWave(tables[n].rows[k], Columns(falias))

\* the effective wavelength of a row's own group: the band edges in the
\* row's own wavelength unit for X-ray, else the row's own effective
\* frequency or wavelength
OwnWave(row, fcols) ==
    IF Cell(row, "obs_type") = "xray"
    THEN Wave("band", 0, FaNum(row, "wave_min"), FaNum(row, "wave_max"),
              FaStr(row, "wave_units"))
    ELSE RowWave(row, fcols)

\* C27: the flux conversion of a group uses the effective wavelength and,
\* for X-ray, the wavelength unit of the band edges resolved from the
\* group's own frequency or wavelength columns, never a value left over
\* from an earlier group.
C27_OwnGroupWave ==
    \A n \in PhotCalls :
        tables[n].res = Ok =>
            \A k \in 1..Len(tables[n].rows) :
                tables[n].rows[k].flux.wave
                    = OwnWave(tables[n].rows[k], Columns(falias))

\* C27, second half: a record with a group whose rows have neither a
\* non-null frequency nor a non-null wavelength yields no table
C27_NeitherFails ==
    \A n \in PhotCalls :
        (\E k \in 1..Len(PhotRows) : RowWave(PhotRows[k], Columns(falias)).via = "none")
        => tables[n].res # Ok

\* C27 for records whose filters are all given by an effective wavelength
C27_WavelengthOnly ==
    \A n \in PhotCalls :
        (tables[n].res = Ok /\ "freq_eff" \notin Columns(falias)) =>
            \A k \in 1..Len(tables[n].rows) :
                tables[n].rows[k].flux.wave
                    = OwnWave(tables[n].rows[k], Columns(falias))

\* the attempts that absorbed the private record j
AbsorbedBy(j) == {n \in 1..Len(tries) : tries[n].jj = j /\ tries[n].res = "ok"}

\* the result has the primaries' positions followed by the unabsorbed
\* private records in input order, and no private record is absorbed twice
C28_CountAndOrder ==
    pc = "reconciled" =>
        /\ newt = SelectIdx(private, {j \in 1..Len(private) : AbsorbedBy(j) = {}}, 1)
        /\ \A j \in 1..Len(private) : Cardinality(AbsorbedBy(j)) <= 1
        /\ Len(partial \o newt)
              = Len(partial) + Cardinality({j \in 1..Len(private) : AbsorbedBy(j) = {}})

\* C28: reconcile loses and duplicates no record: the result is the |P|
\* primaries, position by position, each changed only by the private records
\* it absorbed, followed by the u unabsorbed private records in input order,
\* and every private record contributes to exactly one record of the result.
C28_NoLossNoDuplicate ==
    /\ C28_CountAndOrder
    /\ \A n \in 1..Len(tries) :
          tries[n].changed \subseteq (IF tries[n].res = "ok" THEN {tries[n].ii} ELSE {})

\* the bibcodes cited by the entries of a record
CitedIn(dv) ==
    UNION {UNION {Range(dv[k][i].reference) : i \in 1..Len(dv[k])} :
           k \in DOMAIN dv \ {"reference_alias"}}

\* the bibcodes named by the reference_alias of a record
NamedIn(dv) ==
    IF "reference_alias" \in DOMAIN dv
    THEN {dv.reference_alias[i].name : i \in 1..Len(dv.reference_alias)}
    ELSE {}

Integral(dv) == CitedIn(dv) \subseteq NamedIn(dv)

RefsA == RecVal(heap0, T1)
RefsB == RecVal(heap0, T2)
RefsOut == RecVal(heap, result)

\* C29: merge preserves referential integrity: if every bibcode cited in A
\* and in B names an entry of the record's own reference_alias, every bibcode
\* cited in the result names an entry of the result's reference_alias; when
\* both have the section, the merged section holds each bibcode name of A or
\* B exactly once, with A's entry for a shared name.
C29_ReferentialIntegrity ==
    (Merged /\ outcome = Ok /\ Integral(RefsA) /\ Integral(RefsB)) =>
        /\ Integral(RefsOut)
        /\ "reference_alias" \in DOMAIN T1 \cap DOMAIN T2 =>
              LET out == RefsOut.reference_alias
              IN  /\ NamedIn(RefsOut) = NamedIn(RefsA) \cup NamedIn(RefsB)
                  /\ \A i \in 1..Len(out), j \in 1..Len(out) :
                        i # j => out[i].name # out[j].name
                  /\ \A i \in 1..Len(out) :
                        IF out[i].name \in NamedIn(RefsA)
                        THEN out[i] \in Range(RefsA.reference_alias)
                        ELSE out[i] \in Range(RefsB.reference_alias)

\* a merge of records that share a bibcode under different readable names,
\* where B names and cites a bibcode that A lacks
C29_Witness ==
    /\ Merged /\ outcome = Ok /\ Integral(RefsA) /\ Integral(RefsB)
    /\ "reference_alias" \in DOMAIN T1 \cap DOMAIN T2
    /\ RefsA.reference_alias # RefsB.reference_alias
    /\ NamedIn(RefsA) \cap NamedIn(RefsB) # {}
    /\ (CitedIn(RefsB) \cap CitedIn(RefsOut)) \ NamedIn(RefsA) # {}

\* no two stored records lie within the search tolerance of each other
OnePerObject(files) ==
    \A f \in DOMAIN files, g \in DOMAIN files :
        f # g => Separation(SkycoordOf(files[f]).p, SkycoordOf(files[g]).p)
                     > SearchTolArcsec

\* C30: save keeps one stored record per object: when no two stored records
\* lay within the search tolerance of each other before a save that completes
\* without error, none do after it.
C30_OnePerObject ==
    (pc = "saved" /\ slog # <<>> /\ OnePerObject(slog[1].before)) => OnePerObject(store)

====
